---- MODULE Spec2Model ----
(***************************************************************************)
(* A model of internal/graph/graph.go: the construction of the linker      *)
(* graph (CloneLinkerGraph, with its parallel clone tasks) and the graph   *)
(* mutators (AddPartToFile, GenerateNewSymbol, GenerateSymbolImportAndUse, *)
(* GenerateRuntimeSymbolImportAndUse).                                     *)
(*                                                                         *)
(* Go pointers, slices and maps are references.  The variable heap holds   *)
(* the objects behind them, so that a write through a shared reference is  *)
(* seen by every holder of the reference: a clone that is left out shows   *)
(* up as a change of the shared input.  A slice is [arr, len]: the address *)
(* of its backing array and its length; the array's own length is the      *)
(* slice's capacity.  Go slices are indexed from 0 and TLA+ sequences from *)
(* 1: At(s, i) reads index i of a Go slice.                                *)
(***************************************************************************)
EXTENDS Integers, Sequences, FiniteSets, TLC

\* ------------------------------------------------------------------------
\* Bounds of the model
\* ------------------------------------------------------------------------

\* Number of file identities in the input pool (len(inputFiles)).
NumFiles == 3

\* How often the first file of the "fan-in" shape repeats its dynamic import.
MaxDup == 2

\* Number of mutator calls made on a returned graph.
MaxOps == 2

FileIds == 0 .. (NumFiles - 1)

\* ------------------------------------------------------------------------
\* uint32 values that are added (use counts).  TLC's integers are 32-bit
\* signed, so a uint32 is kept as <<high 16 bits, low 16 bits>>.
\* ------------------------------------------------------------------------

Half == 2 ^ 16

U32(n) == <<n \div Half, n % Half>>

MaxUint32 == <<Half - 1, Half - 1>>

\* a + b in uint32 arithmetic (wraps at 2^32)
Add32Wrapping(a, b) ==
  LET lo == a[2] + b[2]
      hi == a[1] + b[1] + (lo \div Half)
  IN  <<hi % Half, lo % Half>>

\* a + b as natural numbers; the high half is not reduced
AddExact(a, b) ==
  LET lo == a[2] + b[2]
  IN  <<a[1] + b[1] + (lo \div Half), lo % Half>>

\* ------------------------------------------------------------------------
\* References
\* ------------------------------------------------------------------------

\* The address of the object of the given kind that belongs to file f.
\* owner: "in" (the shared input pool), "lk" (allocated by the linker graph),
\* "arg" (allocated by the caller of a mutator), "caller".
Addr(owner, f, kind, n) == <<owner, f, kind, n>>

NilAddr == <<"nil", 0, "nil", 0>>

NilSlice == [arr |-> NilAddr, len |-> 0]

\* Index i (from 0) of a Go slice or array held as a sequence
At(s, i) == s[i + 1]

\* h with the object at address a set to v (allocating a if need be)
Put(h, a, v) == [x \in (DOMAIN h) \cup {a} |-> IF x = a THEN v ELSE h[x]]

\* The elements of slice s
Elems(h, s) == SubSeq(h[s.arr], 1, s.len)

\* m[k] of a Go map: the zero value when k is absent
MapGet(m, k, zero) == IF k \in DOMAIN m THEN m[k] ELSE zero

MapPut(m, k, v) == [x \in (DOMAIN m) \cup {k} |-> IF x = k THEN v ELSE m[x]]

\* A map that is held by value in the model: nil, or a table
NilMap == [nil |-> TRUE, kv |-> << >>]

MakeMap == [nil |-> FALSE, kv |-> << >>]

Ref(f, i) == [SourceIndex |-> f, InnerIndex |-> i]

InvalidRef == Ref(-1, -1)

\* ------------------------------------------------------------------------
\* The input: parsed files, as the parser and the scanner hand them over.
\* A shape gives, per position in reachableFiles, the family of the file
\* and its import records (Target: a position in reachableFiles, or -1 for
\* a record that was not resolved to a file).
\* ------------------------------------------------------------------------

Rec(k, t) == [Kind |-> k, Target |-> t]

Rep(r, n) == [i \in 1 .. n |-> r]

\* A statically imports B, B dynamically imports C
ShapeChain ==
  [kinds |-> <<"JS", "JS", "JS">>,
   recs  |-> << <<Rec("stmt", 1)>>, <<Rec("dynamic", 2)>>, << >> >>]

\* A and B both dynamically import C, A several times; A also imports B
ShapeFanIn ==
  [kinds |-> <<"JS", "JS", "JS">>,
   recs  |-> << Rep(Rec("dynamic", 2), MaxDup) \o <<Rec("dynamic", 1)>>,
                <<Rec("dynamic", 2), Rec("stmt", 0)>>,
                <<Rec("dynamic", -1)>> >>]

\* A stylesheet between two scripts that import each other dynamically
ShapeCSS ==
  [kinds |-> <<"JS", "CSS", "JS">>,
   recs  |-> << <<Rec("stmt", 1), Rec("dynamic", 2)>>,
                <<Rec("at", 1)>>,
                <<Rec("dynamic", 0), Rec("dynamic", 1)>> >>]

\* Two reachable files; the other identities of the pool are not reachable
ShapePair ==
  [kinds |-> <<"JS", "JS">>,
   recs  |-> << <<Rec("dynamic", 1)>>, <<Rec("dynamic", 0)>> >>]

Shapes == {ShapeChain, ShapeFanIn, ShapeCSS, ShapePair}

\* The assignments of file identities to the positions 0 .. n-1
Perms(n) ==
  {p \in [0 .. (n - 1) -> FileIds] :
     \A a, b \in 0 .. (n - 1) : a # b => p[a] # p[b]}

IdentityPerm(n) == [i \in 0 .. (n - 1) |-> i]

\* The position of identity f under perm, -1 when f is not reachable
PosOf(perm, f) ==
  IF \E p \in DOMAIN perm : perm[p] = f
    THEN CHOOSE p \in DOMAIN perm : perm[p] = f
    ELSE -1

KindOfInput(shape, perm, f) ==
  IF PosOf(perm, f) < 0 THEN "JS" ELSE At(shape.kinds, PosOf(perm, f))

RecsOfInput(shape, perm, f) ==
  IF PosOf(perm, f) < 0 THEN << >> ELSE At(shape.recs, PosOf(perm, f))

ImportRecordOf(perm, r) ==
  [Kind        |-> r.Kind,
   SourceIndex |-> [valid |-> r.Target >= 0,
                    index |-> IF r.Target >= 0 THEN perm[r.Target] ELSE 0],
   Assertions  |-> "assert"]

ParsedSymbols(f) ==
  << [Kind |-> "unbound", OriginalName |-> "exports", Link |-> InvalidRef],
     [Kind |-> "unbound", OriginalName |-> "module", Link |-> InvalidRef],
     [Kind |-> "hoisted", OriginalName |-> "x", Link |-> InvalidRef] >>

\* Two parts declare the top-level symbol x; the first has no use map
ParsedParts(f) ==
  << [SymbolUses      |-> NilAddr,
      DeclaredSymbols |-> << [Ref |-> Ref(f, 2), IsTopLevel |-> TRUE] >>,
      Dependencies    |-> << >>],
     [SymbolUses      |-> Addr("in", f, "uses", 1),
      DeclaredSymbols |-> << [Ref |-> Ref(f, 2), IsTopLevel |-> TRUE] >>,
      Dependencies    |-> << [SourceIndex |-> f, PartIndex |-> 0] >>] >>

ParsedTSEnums(f, pos) ==
  IF pos \in {0, 2}
    THEN [nil |-> FALSE, kv |-> (Ref(f, 2) :> <<"enum", pos>>)]
    ELSE NilMap

ParsedConstValues(f, pos) ==
  IF pos = 1
    THEN [nil |-> FALSE, kv |-> (Ref(f, 2) :> <<"const", pos>>)]
    ELSE NilMap

ParsedJSRepr(f, pos, nrecs) ==
  [AST |->
     [Symbols       |-> [arr |-> Addr("in", f, "symbols", 0), len |-> 3],
      Parts         |-> [arr |-> Addr("in", f, "parts", 0), len |-> 2],
      ImportRecords |-> [arr |-> Addr("in", f, "records", 0), len |-> nrecs],
      NamedImports  |-> Addr("in", f, "namedImports", 0),
      NamedExports  |-> ("x" :> [Ref |-> Ref(f, 2), AliasLoc |-> 7]),
      ModuleScope   |-> Addr("in", f, "scope", 0),
      TSEnums       |-> ParsedTSEnums(f, pos),
      ConstValues   |-> ParsedConstValues(f, pos),
      TopLevelSymbolToPartsFromParser |-> (Ref(f, 2) :> <<0, 1>>),
      ExportsRef    |-> Ref(f, 0),
      ModuleRef     |-> Ref(f, 1),
      UsesExportsRef |-> FALSE,
      UsesModuleRef  |-> FALSE],
   Meta |->
     [ResolvedExports              |-> NilMap,
      IsProbablyTypeScriptType     |-> NilMap,
      ImportsToBind                |-> NilMap,
      TopLevelSymbolToPartsOverlay |-> NilMap]]

ParsedCSSRepr(f, nrecs) ==
  [AST |->
     [ImportRecords |-> [arr |-> Addr("in", f, "records", 0), len |-> nrecs]]]

\* The objects of the input pool that belong to file f
InputObjects(shape, perm, f) ==
  LET recs == RecsOfInput(shape, perm, f)
      pos  == PosOf(perm, f)
      arr  == [i \in 1 .. Len(recs) |-> ImportRecordOf(perm, recs[i])]
  IN  IF KindOfInput(shape, perm, f) = "JS"
        THEN (Addr("in", f, "repr", 0) :> ParsedJSRepr(f, pos, Len(recs)))
             @@ (Addr("in", f, "symbols", 0) :> ParsedSymbols(f))
             @@ (Addr("in", f, "parts", 0) :> ParsedParts(f))
             @@ (Addr("in", f, "uses", 1) :>
                   (Ref(f, 2) :> [CountEstimate |-> U32(1)]))
             @@ (Addr("in", f, "records", 0) :> arr)
             @@ (Addr("in", f, "namedImports", 0) :>
                   (Ref(f, 2) :> [Alias |-> "x"]))
             @@ (Addr("in", f, "scope", 0) :>
                   [Generated |-> [arr |-> Addr("in", f, "generated", 0),
                                   len |-> 1]])
             @@ (Addr("in", f, "generated", 0) :> <<Ref(f, 1)>>)
        ELSE (Addr("in", f, "repr", 0) :> ParsedCSSRepr(f, Len(recs)))
             @@ (Addr("in", f, "records", 0) :> arr)

RECURSIVE InputHeap(_, _, _)
InputHeap(shape, perm, fs) ==
  IF fs = {}
    THEN (NilAddr :> << >>)
    ELSE LET f == CHOOSE x \in fs : TRUE
         IN  InputObjects(shape, perm, f) @@ InputHeap(shape, perm, fs \ {f})

InputFileOf(shape, perm, f) ==
  [Source |-> f,
   Repr   |-> [type |-> KindOfInput(shape, perm, f),
               ptr  |-> Addr("in", f, "repr", 0)]]

\* The caller's entry points: a slice of length Len(eps) whose backing
\* array has room for one more element.
CallerEntryPoint(perm, pos) ==
  [OutputPath |-> <<"out", pos>>, SourceIndex |-> perm[pos],
   OutputPathWasAutoGenerated |-> FALSE]

ZeroEntryPoint ==
  [OutputPath |-> <<"", 0>>, SourceIndex |-> 0,
   OutputPathWasAutoGenerated |-> FALSE]

CallerEntriesAddr == Addr("caller", 0, "entries", 0)

\* The entry lists tried, as positions in reachableFiles
EntryChoices(n) == { <<0>>, <<1>>, <<n - 1, 0>> }

\* ------------------------------------------------------------------------
\* State
\* ------------------------------------------------------------------------

VARIABLES
  inputFiles,               \* argument: the shared pool of parsed files
  reachableFiles,           \* argument: file identities, in a stable order
  originalEntryPoints,      \* argument: the caller's slice of entry points
  codeSplitting,            \* argument
  heap,                     \* the objects behind pointers, slices and maps
  pc,                       \* where CloneLinkerGraph's own goroutine is
  dispatched,               \* iterations of the dispatch loop done
  task,                     \* per file identity: where its clone task is
  entryPoints,              \* local slice, then LinkerGraph.entryPoints
  files,                    \* local, then LinkerGraph.Files
  symbols,                  \* SymbolMap.SymbolsForSource
  stableSourceIndices,      \* local, then LinkerGraph.StableSourceIndices
  dynamicImportEntryPoints, \* local, appended to under the mutex
  mutex,                    \* dynamicImportEntryPointsMutex: holder or -1
  waitGroup,                \* the counter of waitGroup
  stableEntryPoints,        \* local
  tsEnums,                  \* local, then LinkerGraph.TSEnums
  constValues,              \* local, then LinkerGraph.ConstValues
  ops,                      \* mutator calls made on the returned graph
  log,                      \* history of the mutator calls (for the claims)
  pool0                     \* the input pool as it was handed over

argVars == <<inputFiles, reachableFiles, originalEntryPoints, codeSplitting>>

buildVars ==
  <<pc, dispatched, task, entryPoints, files, symbols, stableSourceIndices,
    dynamicImportEntryPoints, mutex, waitGroup, stableEntryPoints, tsEnums,
    constValues>>

vars == <<argVars, heap, buildVars, ops, log, pool0>>

\* The zero value of LinkerFile
ZeroLinkerFile ==
  [EntryBits              |-> << >>,
   InputFile              |-> [Source |-> -1,
                               Repr |-> [type |-> "nil", ptr |-> NilAddr]],
   DistanceFromEntryPoint |-> U32(0),
   EntryPointChunkIndex   |-> 0,
   entryPointKind         |-> "entryPointNone",
   IsLive                 |-> FALSE]

EmptyLog == [uses |-> << >>, adds |-> << >>, gens |-> << >>, zeroUses |-> 0]

\* The state in which CloneLinkerGraph is called on the given input
Start(shape, perm, eps, cs) ==
  LET n  == Len(shape.kinds)
      h0 == InputHeap(shape, perm, FileIds)
      h1 == Put(h0, CallerEntriesAddr,
                [i \in 1 .. (Len(eps) + 1) |->
                   IF i <= Len(eps) THEN CallerEntryPoint(perm, eps[i])
                                    ELSE ZeroEntryPoint])
      fs == [f \in FileIds |-> InputFileOf(shape, perm, f)]
  IN  /\ inputFiles = fs
      /\ reachableFiles = [i \in 1 .. n |-> perm[i - 1]]
      /\ originalEntryPoints = [arr |-> CallerEntriesAddr, len |-> Len(eps)]
      /\ codeSplitting = cs
      /\ heap = h1
      /\ pc = "start"
      /\ dispatched = 0
      /\ task = [f \in FileIds |-> [pc |-> "idle", i |-> 0]]
      /\ entryPoints = NilSlice
      /\ files = [f \in FileIds |-> ZeroLinkerFile]
      /\ symbols = [f \in FileIds |-> NilSlice]
      /\ stableSourceIndices = [f \in FileIds |-> 0]
      /\ dynamicImportEntryPoints = << >>
      /\ mutex = -1
      /\ waitGroup = 0
      /\ stableEntryPoints = << >>
      /\ tsEnums = NilMap
      /\ constValues = NilMap
      /\ ops = 0
      /\ log = EmptyLog
      /\ pool0 = [files |-> fs, heap |-> h1]

\* ------------------------------------------------------------------------
\* Slices
\* ------------------------------------------------------------------------

\* append([]T{}, s...): the elements of s in a new array at address own
CopySlice(h, s, own) == Put(h, own, Elems(h, s))

\* append(s, x): in place when the array has room, else a new array at own
AppendHeap(h, s, x, own) ==
  IF s.len < Len(h[s.arr])
    THEN [h EXCEPT ![s.arr] = [@ EXCEPT ![s.len + 1] = x]]
    ELSE Put(h, own, Append(Elems(h, s), x))

AppendSlice(h, s, own) ==
  IF s.len < Len(h[s.arr])
    THEN [arr |-> s.arr, len |-> s.len + 1]
    ELSE [arr |-> own, len |-> s.len + 1]

\* ------------------------------------------------------------------------
\* CloneLinkerGraph: the start, up to the dispatch loop
\* ------------------------------------------------------------------------

LkEntriesAddr == Addr("lk", 0, "entries", 0)

\* entryPoints := append([]EntryPoint{}, originalEntryPoints...)
CopyEntryPointsHeap(h, orig) == CopySlice(h, orig, LkEntriesAddr)

CopyEntryPointsSlice(h, orig) == [arr |-> LkEntriesAddr, len |-> orig.len]

\* Mutant of MarkEntryPoints: the initial entry points are not marked
MarkEntryPointsLeftOut(fs, eps) == fs

\* Mark all entry points so we don't add them again for import() expressions
MarkEntryPoints(fs, eps) ==
  [f \in FileIds |->
     IF \E i \in 1 .. Len(eps) : eps[i].SourceIndex = f
       THEN [fs[f] EXCEPT !.entryPointKind = "entryPointUserSpecified"]
       ELSE fs[f]]

Begin ==
  /\ pc = "start"
  /\ heap' = CopyEntryPointsHeap(heap, originalEntryPoints)
  /\ entryPoints' = CopyEntryPointsSlice(heap, originalEntryPoints)
  /\ symbols' = [f \in FileIds |-> NilSlice]
  /\ files' = MarkEntryPoints([f \in FileIds |-> ZeroLinkerFile],
                              Elems(heap', entryPoints'))
  /\ waitGroup' = Len(reachableFiles)
  /\ stableSourceIndices' = [f \in FileIds |-> 0]
  /\ pc' = "dispatch"
  /\ UNCHANGED <<argVars, dispatched, task, dynamicImportEntryPoints, mutex,
                 stableEntryPoints, tsEnums, constValues, ops, log, pool0>>

\* One iteration of "for stableIndex, sourceIndex := range reachableFiles"
Dispatch ==
  /\ pc = "dispatch"
  /\ dispatched < Len(reachableFiles)
  /\ LET sourceIndex == At(reachableFiles, dispatched)
     IN  /\ stableSourceIndices' =
               [stableSourceIndices EXCEPT ![sourceIndex] = dispatched]
         /\ task' = [task EXCEPT ![sourceIndex] = [pc |-> "clone", i |-> 0]]
  /\ dispatched' = dispatched + 1
  /\ UNCHANGED <<argVars, heap, pc, entryPoints, files, symbols,
                 dynamicImportEntryPoints, mutex, waitGroup,
                 stableEntryPoints, tsEnums, constValues, ops, log, pool0>>

\* ------------------------------------------------------------------------
\* The clone task of one file (the goroutine of the dispatch loop)
\* ------------------------------------------------------------------------

\* Where each clone of the task for file f is allocated.  The argument old
\* is the address of the object that is cloned.
ReprCloneAddr(f, old) == Addr("lk", f, "repr", 0)

SymbolsCloneAddr(f, old) == Addr("lk", f, "symbols", 0)

PartsCloneAddr(f, old) == Addr("lk", f, "parts", 0)

\* Mutant of SymbolUsesCloneAddr: the part keeps the parser's use map
SymbolUsesShared(f, i, old) == old

SymbolUsesCloneAddr(f, i, old) == Addr("lk", f, "uses", i)

ImportRecordsCloneAddr(f, old) == Addr("lk", f, "records", 0)

NamedImportsCloneAddr(f, old) == Addr("lk", f, "namedImports", 0)

ModuleScopeCloneAddr(f, old) == Addr("lk", f, "scope", 0)

GeneratedCloneAddr(f, old) == Addr("lk", f, "generated", 0)

\* clone := *repr; repr = &clone
CloneRepr(h, f, ptr) == Put(h, ReprCloneAddr(f, ptr), h[ptr])

\* fileSymbols := append([]js_ast.Symbol{}, repr.AST.Symbols...)
CloneSymbols(h, f, rp) ==
  CopySlice(h, h[rp].AST.Symbols,
            SymbolsCloneAddr(f, h[rp].AST.Symbols.arr))

\* Mutant of ClearSymbols: the clone keeps its pointer to the symbol list
ClearSymbolsLeftOut(h, rp) == h

\* repr.AST.Symbols = nil
ClearSymbols(h, rp) == [h EXCEPT ![rp].AST.Symbols = NilSlice]

\* repr.AST.Parts = append([]js_ast.Part{}, repr.AST.Parts...)
CloneParts(h, f, rp) ==
  LET old == h[rp].AST.Parts
      new == PartsCloneAddr(f, old.arr)
  IN  [CopySlice(h, old, new) EXCEPT ![rp].AST.Parts.arr = new]

\* The loop "for i := range repr.AST.Parts", from iteration i on: every part
\* gets a use map of its own with the entries of the one it had.
RECURSIVE CloneSymbolUses(_, _, _, _)
CloneSymbolUses(h, f, rp, i) ==
  IF i >= h[rp].AST.Parts.len
    THEN h
    ELSE LET arr == h[rp].AST.Parts.arr
             old == At(h[arr], i).SymbolUses
             new == SymbolUsesCloneAddr(f, i, old)
             h1  == Put(h, new, h[old])
             h2  == [h1 EXCEPT ![arr][i + 1].SymbolUses = new]
         IN  CloneSymbolUses(h2, f, rp, i + 1)

\* repr.AST.ImportRecords = append([]ast.ImportRecord{}, ...)
CloneImportRecords(h, f, rp) ==
  LET old == h[rp].AST.ImportRecords
      new == ImportRecordsCloneAddr(f, old.arr)
  IN  [CopySlice(h, old, new) EXCEPT ![rp].AST.ImportRecords.arr = new]

\* The task up to the clone of the import records
CloneJS(h, f, ptr) ==
  LET rp == ReprCloneAddr(f, ptr)
      h1 == CloneRepr(h, f, ptr)
      h2 == CloneSymbols(h1, f, rp)
      h3 == ClearSymbols(h2, rp)
      h4 == CloneParts(h3, f, rp)
      h5 == CloneSymbolUses(h4, f, rp, 0)
  IN  CloneImportRecords(h5, f, rp)

CloneCSS(h, f, ptr) ==
  CloneImportRecords(CloneRepr(h, f, ptr), f, ReprCloneAddr(f, ptr))

\* The representation of f in the linker's file table
ReprPtr(f) == files[f].InputFile.Repr.ptr

ReprType(f) == files[f].InputFile.Repr.type

TaskClone(f) ==
  /\ task[f].pc = "clone"
  /\ LET in   == inputFiles[f]
         ptr  == in.Repr.ptr
         rp   == ReprCloneAddr(f, ptr)
         syms == heap[ptr].AST.Symbols
     IN  CASE in.Repr.type = "JS" ->
                /\ heap' = CloneJS(heap, f, ptr)
                /\ files' = [files EXCEPT ![f].InputFile =
                               [in EXCEPT !.Repr.ptr = rp]]
                /\ symbols' = [symbols EXCEPT ![f] =
                      [arr |-> SymbolsCloneAddr(f, syms.arr),
                       len |-> syms.len]]
                /\ task' = [task EXCEPT ![f].pc =
                              IF codeSplitting THEN "records" ELSE "finish"]
           [] in.Repr.type = "CSS" ->
                /\ heap' = CloneCSS(heap, f, ptr)
                /\ files' = [files EXCEPT ![f].InputFile =
                               [in EXCEPT !.Repr.ptr = rp]]
                /\ task' = [task EXCEPT ![f].pc = "finish"]
                /\ UNCHANGED symbols
           [] OTHER ->
                /\ files' = [files EXCEPT ![f].InputFile = in]
                /\ task' = [task EXCEPT ![f].pc = "finish"]
                /\ UNCHANGED <<heap, symbols>>
  /\ UNCHANGED <<argVars, pc, dispatched, entryPoints, stableSourceIndices,
                 dynamicImportEntryPoints, mutex, waitGroup,
                 stableEntryPoints, tsEnums, constValues, ops, log, pool0>>

\* The import record the loop of task f is at
CurrentRecord(f) ==
  At(heap[heap[ReprPtr(f)].AST.ImportRecords.arr], task[f].i)

\* record.SourceIndex.IsValid() && record.Kind == ast.ImportDynamic
IsDynamicImportOfFile(record) ==
  record.SourceIndex.valid /\ record.Kind = "dynamic"

InRecordLoop(f) ==
  /\ task[f].pc = "records"
  /\ task[f].i < heap[ReprPtr(f)].AST.ImportRecords.len

\* An iteration of the loop over the import records whose record is not a
\* dynamic import of a file
TaskSkipRecord(f) ==
  /\ InRecordLoop(f)
  /\ ~IsDynamicImportOfFile(CurrentRecord(f))
  /\ task' = [task EXCEPT ![f].i = @ + 1]
  /\ UNCHANGED <<argVars, heap, pc, dispatched, entryPoints, files, symbols,
                 stableSourceIndices, dynamicImportEntryPoints, mutex,
                 waitGroup, stableEntryPoints, tsEnums, constValues, ops,
                 log, pool0>>

\* Mutant of TaskLock: the task goes on without the lock being free
TaskLockLeftOut(f) ==
  /\ InRecordLoop(f)
  /\ IsDynamicImportOfFile(CurrentRecord(f))
  /\ mutex' = f
  /\ task' = [task EXCEPT ![f].pc = "locked"]
  /\ UNCHANGED <<argVars, heap, pc, dispatched, entryPoints, files, symbols,
                 stableSourceIndices, dynamicImportEntryPoints, waitGroup,
                 stableEntryPoints, tsEnums, constValues, ops, log, pool0>>

\* dynamicImportEntryPointsMutex.Lock()
TaskLock(f) ==
  /\ InRecordLoop(f)
  /\ IsDynamicImportOfFile(CurrentRecord(f))
  /\ mutex = -1
  /\ mutex' = f
  /\ task' = [task EXCEPT ![f].pc = "locked"]
  /\ UNCHANGED <<argVars, heap, pc, dispatched, entryPoints, files, symbols,
                 stableSourceIndices, dynamicImportEntryPoints, waitGroup,
                 stableEntryPoints, tsEnums, constValues, ops, log, pool0>>

\* dynamicImportEntryPoints = append(dynamicImportEntryPoints, ...)
TaskAppend(f) ==
  /\ task[f].pc = "locked"
  /\ dynamicImportEntryPoints' =
       Append(dynamicImportEntryPoints, CurrentRecord(f).SourceIndex.index)
  /\ task' = [task EXCEPT ![f].pc = "appended"]
  /\ UNCHANGED <<argVars, heap, pc, dispatched, entryPoints, files, symbols,
                 stableSourceIndices, mutex, waitGroup, stableEntryPoints,
                 tsEnums, constValues, ops, log, pool0>>

\* Mutant of ClearAssertions: the assertions are left in place
ClearAssertionsLeftOut(h, rp, i) == h

\* record.Assertions = nil, on the record at index i of the task's records
ClearAssertions(h, rp, i) ==
  [h EXCEPT ![h[rp].AST.ImportRecords.arr][i + 1].Assertions = "nil"]

\* dynamicImportEntryPointsMutex.Unlock(); record.Assertions = nil
TaskUnlock(f) ==
  /\ task[f].pc = "appended"
  /\ mutex' = -1
  /\ heap' = ClearAssertions(heap, ReprPtr(f), task[f].i)
  /\ task' = [task EXCEPT ![f] = [pc |-> "records", i |-> @.i + 1]]
  /\ UNCHANGED <<argVars, pc, dispatched, entryPoints, files, symbols,
                 stableSourceIndices, dynamicImportEntryPoints, waitGroup,
                 stableEntryPoints, tsEnums, constValues, ops, log, pool0>>

\* namedImports := make(...); for k, v := range repr.AST.NamedImports ...
CloneNamedImports(h, f, rp) ==
  LET old == h[rp].AST.NamedImports
      new == NamedImportsCloneAddr(f, old)
  IN  [Put(h, new, h[old]) EXCEPT ![rp].AST.NamedImports = new]

\* resolvedExports[alias] = ExportData{...} for every named export
ResolvedExportsOf(namedExports, sourceIndex) ==
  [nil |-> FALSE,
   kv  |-> [alias \in DOMAIN namedExports |->
              [Ref         |-> namedExports[alias].Ref,
               SourceIndex |-> sourceIndex,
               NameLoc     |-> namedExports[alias].AliasLoc]]]

\* Clone the top-level scope so we can generate more variables
CloneModuleScope(h, f, rp) ==
  LET old   == h[rp].AST.ModuleScope
      new   == ModuleScopeCloneAddr(f, old)
      gen   == h[old].Generated
      garr  == GeneratedCloneAddr(f, gen.arr)
      h1    == Put(h, new, h[old])
      h2    == CopySlice(h1, gen, garr)
      h3    == [h2 EXCEPT ![new].Generated.arr = garr]
  IN  [h3 EXCEPT ![rp].AST.ModuleScope = new]

\* Also associate some default metadata with the file
DefaultMeta(h, f, rp) ==
  [h EXCEPT ![rp].Meta =
     [@ EXCEPT !.ResolvedExports =
                   ResolvedExportsOf(h[rp].AST.NamedExports, f),
               !.IsProbablyTypeScriptType = MakeMap,
               !.ImportsToBind = MakeMap]]

FinishJS(h, f, rp) ==
  DefaultMeta(CloneModuleScope(CloneNamedImports(h, f, rp), f, rp), f, rp)

\* The rest of the task once the loop over the import records has ended,
\* down to waitGroup.Done()
TaskFinish(f) ==
  /\ \/ task[f].pc = "finish"
     \/ /\ task[f].pc = "records"
        /\ task[f].i >= heap[ReprPtr(f)].AST.ImportRecords.len
  /\ heap' = IF ReprType(f) = "JS" THEN FinishJS(heap, f, ReprPtr(f))
                                   ELSE heap
  /\ files' = [files EXCEPT ![f].DistanceFromEntryPoint = MaxUint32]
  /\ waitGroup' = waitGroup - 1
  /\ task' = [task EXCEPT ![f] = [pc |-> "done", i |-> 0]]
  /\ UNCHANGED <<argVars, pc, dispatched, entryPoints, symbols,
                 stableSourceIndices, dynamicImportEntryPoints, mutex,
                 stableEntryPoints, tsEnums, constValues, ops, log, pool0>>

\* ------------------------------------------------------------------------
\* CloneLinkerGraph after the barrier
\* ------------------------------------------------------------------------

\* Mutant of WaitGroupWait: the serial phase goes on without waiting
WaitGroupWaitLeftOut ==
  /\ pc = "dispatch"
  /\ dispatched >= Len(reachableFiles)
  /\ pc' = "promote"
  /\ UNCHANGED <<argVars, heap, dispatched, task, entryPoints, files,
                 symbols, stableSourceIndices, dynamicImportEntryPoints,
                 mutex, waitGroup, stableEntryPoints, tsEnums, constValues,
                 ops, log, pool0>>

\* waitGroup.Wait(), reached when the dispatch loop has ended
WaitGroupWait ==
  /\ pc = "dispatch"
  /\ dispatched >= Len(reachableFiles)
  /\ waitGroup = 0
  /\ pc' = "promote"
  /\ UNCHANGED <<argVars, heap, dispatched, task, entryPoints, files,
                 symbols, stableSourceIndices, dynamicImportEntryPoints,
                 mutex, waitGroup, stableEntryPoints, tsEnums, constValues,
                 ops, log, pool0>>

\* Mutant of IsNotYetEntryPoint: every candidate is promoted
AlwaysPromote(file) == TRUE

\* otherFile.entryPointKind == entryPointNone
IsNotYetEntryPoint(file) == file.entryPointKind = "entryPointNone"

\* The loop "for _, sourceIndex := range dynamicImportEntryPoints" from
\* element i (from 1) on; fs are the files and acc the stable entry points
RECURSIVE PromoteFrom(_, _, _, _, _)
PromoteFrom(list, i, fs, stable, acc) ==
  IF i > Len(list)
    THEN [files |-> fs, stableEntryPoints |-> acc]
    ELSE LET sourceIndex == list[i]
         IN  IF IsNotYetEntryPoint(fs[sourceIndex])
               THEN PromoteFrom(list, i + 1,
                      [fs EXCEPT ![sourceIndex].entryPointKind =
                                    "entryPointDynamicImport"],
                      stable, Append(acc, stable[sourceIndex]))
               ELSE PromoteFrom(list, i + 1, fs, stable, acc)

\* Process dynamic entry points after merging control flow again
Promote ==
  /\ pc = "promote"
  /\ LET r == PromoteFrom(dynamicImportEntryPoints, 1, files,
                          stableSourceIndices, << >>)
     IN  /\ files' = r.files
         /\ stableEntryPoints' = r.stableEntryPoints
  /\ pc' = "sort"
  /\ UNCHANGED <<argVars, heap, dispatched, task, entryPoints, symbols,
                 stableSourceIndices, dynamicImportEntryPoints, mutex,
                 waitGroup, tsEnums, constValues, ops, log, pool0>>

\* s without its element at index i (from 1)
RemoveAt(s, i) == SubSeq(s, 1, i - 1) \o SubSeq(s, i + 1, Len(s))

\* Mutant of SortInts: the promoted entry points are left in the order in
\* which they were discovered
SortIntsLeftOut(s) == s

\* Mutant of SortInts: the promoted entry points are ordered by the file
\* identity they stand for, not by their stable index
RECURSIVE SortByFileIdentity(_)
SortByFileIdentity(s) ==
  IF s = << >>
    THEN << >>
    ELSE LET i == CHOOSE j \in 1 .. Len(s) :
                    \A k \in 1 .. Len(s) :
                      At(reachableFiles, s[j]) <= At(reachableFiles, s[k])
         IN  <<s[i]>> \o SortByFileIdentity(RemoveAt(s, i))

\* sort.Ints: the elements of s in increasing order
RECURSIVE SortInts(_)
SortInts(s) ==
  IF s = << >>
    THEN << >>
    ELSE LET i == CHOOSE j \in 1 .. Len(s) :
                    \A k \in 1 .. Len(s) : s[j] <= s[k]
         IN  <<s[i]>> \o SortInts(RemoveAt(s, i))

\* Mutant of DynamicEntryPoint: the stable index is taken for the file
\* identity
DynamicEntryPointUnmapped(stableIndex) ==
  [OutputPath |-> <<"", 0>>,
   SourceIndex |-> stableIndex,
   OutputPathWasAutoGenerated |-> FALSE]

\* EntryPoint{SourceIndex: reachableFiles[stableIndex]}
DynamicEntryPoint(stableIndex) ==
  [OutputPath |-> <<"", 0>>,
   SourceIndex |-> At(reachableFiles, stableIndex),
   OutputPathWasAutoGenerated |-> FALSE]

\* The loop "for _, stableIndex := range stableEntryPoints" from element i
\* (from 1) on: st is [heap, entryPoints]
RECURSIVE AppendEntryPointsFrom(_, _, _)
AppendEntryPointsFrom(sorted, i, st) ==
  IF i > Len(sorted)
    THEN st
    ELSE AppendEntryPointsFrom(sorted, i + 1,
           [heap        |-> AppendHeap(st.heap, st.entryPoints,
                                       DynamicEntryPoint(sorted[i]),
                                       LkEntriesAddr),
            entryPoints |-> AppendSlice(st.heap, st.entryPoints,
                                        LkEntriesAddr)])

\* Make sure to add dynamic entry points in a deterministic order
SortAndAppend ==
  /\ pc = "sort"
  /\ LET sorted == SortInts(stableEntryPoints)
         r == AppendEntryPointsFrom(sorted, 1,
                [heap |-> heap, entryPoints |-> entryPoints])
     IN  /\ stableEntryPoints' = sorted
         /\ heap' = r.heap
         /\ entryPoints' = r.entryPoints
  /\ pc' = "final"
  /\ UNCHANGED <<argVars, dispatched, task, files, symbols,
                 stableSourceIndices, dynamicImportEntryPoints, mutex,
                 waitGroup, tsEnums, constValues, ops, log, pool0>>

\* Mutant of BitCount: the entry points are counted before the promoted ones
\* are appended
BitCountBeforePromotion(eps) == originalEntryPoints.len

\* bitCount := uint(len(entryPoints))
BitCount(eps) == eps.len

\* helpers.NewBitSet(bitCount): bitCount bits, all clear
NewBitSet(bitCount) == [i \in 1 .. bitCount |-> FALSE]

Range(s) == {s[i] : i \in 1 .. Len(s)}

\* file.EntryBits = helpers.NewBitSet(bitCount), for every reachable file
AllocateEntryBits(fs, bitCount) ==
  [f \in FileIds |->
     IF f \in Range(reachableFiles)
       THEN [fs[f] EXCEPT !.EntryBits = NewBitSet(bitCount)]
       ELSE fs[f]]

\* "for ref, v := range m { acc[ref] = v }", making acc when it is nil
MergeInto(acc, m) ==
  [nil |-> FALSE,
   kv  |-> [x \in (DOMAIN acc.kv) \cup (DOMAIN m.kv) |->
              IF x \in DOMAIN m.kv THEN m.kv[x] ELSE acc.kv[x]]]

\* The merge of the tables (field "TSEnums" or "ConstValues") of the
\* reachable files from element i (from 1) of reachableFiles on
RECURSIVE MergeTablesFrom(_, _, _, _)
MergeTablesFrom(h, field, i, acc) ==
  IF i > Len(reachableFiles)
    THEN acc
    ELSE LET f == reachableFiles[i]
             t == IF ReprType(f) = "JS"
                    THEN IF field = "TSEnums"
                           THEN h[ReprPtr(f)].AST.TSEnums
                           ELSE h[ReprPtr(f)].AST.ConstValues
                    ELSE NilMap
         IN  MergeTablesFrom(h, field, i + 1,
                             IF t.nil THEN acc ELSE MergeInto(acc, t))

\* Do a final quick pass over all files
FinalPass ==
  /\ pc = "final"
  /\ files' = AllocateEntryBits(files, BitCount(entryPoints))
  /\ tsEnums' = MergeTablesFrom(heap, "TSEnums", 1, NilMap)
  /\ constValues' = MergeTablesFrom(heap, "ConstValues", 1, NilMap)
  /\ pc' = "return"
  /\ UNCHANGED <<argVars, heap, dispatched, task, entryPoints, symbols,
                 stableSourceIndices, dynamicImportEntryPoints, mutex,
                 waitGroup, stableEntryPoints, ops, log, pool0>>

\* return LinkerGraph{...}: the locals that are no field of the graph end
Return ==
  /\ pc = "return"
  /\ pc' = "done"
  /\ dynamicImportEntryPoints' = << >>
  /\ stableEntryPoints' = << >>
  /\ UNCHANGED <<argVars, heap, dispatched, task, entryPoints, files,
                 symbols, stableSourceIndices, mutex, waitGroup, tsEnums,
                 constValues, ops, log, pool0>>

\* ------------------------------------------------------------------------
\* The mutators of the returned graph.  Each is a function from the state
\* to its outcome: the new heap and symbol table, whether the call
\* panicked (a failed type assertion or an index out of range; what was
\* written before the panic stays written), and the value returned.
\* ------------------------------------------------------------------------

\* g.Files[sourceIndex].InputFile.Repr.(*JSRepr) does not panic
IsJSRepr(f) == ReprType(f) = "JS"

PartsOf(h, f) == h[ReprPtr(f)].AST.Parts

\* The part arguments tried for AddPartToFile on file f: uses is the
\* caller's use map (by value, or nil)
PartArgs(f) ==
  { [uses            |-> NilMap,
     DeclaredSymbols |-> << [Ref |-> Ref(f, 2), IsTopLevel |-> TRUE] >>,
     Dependencies    |-> << >>],
    [uses            |-> [nil |-> FALSE,
                          kv  |-> (Ref(f, 2) :> [CountEstimate |-> U32(1)])],
     DeclaredSymbols |-> << [Ref |-> Ref(f, 0), IsTopLevel |-> FALSE],
                            [Ref |-> Ref(f, 1), IsTopLevel |-> TRUE] >>,
     Dependencies    |-> << >>] }

\* The use map of the part handed to AddPartToFile, as the caller built it
ArgUsesAddr(f, partIndex, arg) ==
  IF arg.uses.nil THEN NilAddr ELSE Addr("arg", f, "uses", partIndex)

\* Mutant of RepairSymbolUses: a nil use map is stored as it is
RepairLeftOut(f, partIndex, usesAddr) == usesAddr

\* if part.SymbolUses == nil { part.SymbolUses = make(...) }
RepairSymbolUses(f, partIndex, usesAddr) ==
  IF usesAddr = NilAddr THEN Addr("lk", f, "uses", partIndex) ELSE usesAddr

\* Mutant of OverlaySeed: a new overlay entry starts empty
OverlaySeedEmpty(ast, ref) == << >>

\* partIndices = append(partIndices, TopLevelSymbolToPartsFromParser[ref]...)
OverlaySeed(ast, ref) ==
  MapGet(ast.TopLevelSymbolToPartsFromParser, ref, << >>)

\* The body of "if declaredSymbol.IsTopLevel" on the representation repr
AddToOverlay(repr, ref, partIndex) ==
  LET overlay == repr.Meta.TopLevelSymbolToPartsOverlay
      ok      == ref \in DOMAIN overlay.kv
      seeded  == IF ok THEN overlay.kv[ref] ELSE OverlaySeed(repr.AST, ref)
  IN  [repr EXCEPT !.Meta.TopLevelSymbolToPartsOverlay =
         [nil |-> FALSE,
          kv  |-> MapPut(overlay.kv, ref, Append(seeded, partIndex))]]

\* The loop "for _, declaredSymbol := range part.DeclaredSymbols" from
\* element i (from 1) on
RECURSIVE OverlayFrom(_, _, _, _)
OverlayFrom(repr, declared, i, partIndex) ==
  IF i > Len(declared)
    THEN repr
    ELSE OverlayFrom(
           IF declared[i].IsTopLevel
             THEN AddToOverlay(repr, declared[i].Ref, partIndex)
             ELSE repr,
           declared, i + 1, partIndex)

AddPartToFileResult(sourceIndex, arg) ==
  LET rp        == ReprPtr(sourceIndex)
      parts     == PartsOf(heap, sourceIndex)
      partIndex == parts.len
      given     == ArgUsesAddr(sourceIndex, IF IsJSRepr(sourceIndex)
                                              THEN partIndex ELSE 0, arg)
      h0        == IF given = NilAddr THEN heap
                                      ELSE Put(heap, given, arg.uses.kv)
      usesAddr  == RepairSymbolUses(sourceIndex,
                      IF IsJSRepr(sourceIndex) THEN partIndex ELSE 0, given)
      h1        == IF usesAddr = given THEN h0 ELSE Put(h0, usesAddr, << >>)
      part      == [SymbolUses      |-> usesAddr,
                    DeclaredSymbols |-> arg.DeclaredSymbols,
                    Dependencies    |-> arg.Dependencies]
      own       == Addr("lk", sourceIndex, "parts", 0)
      h2        == AppendHeap(h1, parts, part, own)
      h3        == [h2 EXCEPT ![rp].AST.Parts = AppendSlice(h1, parts, own)]
      h4        == [h3 EXCEPT ![rp] =
                      OverlayFrom(@, part.DeclaredSymbols, 1, partIndex)]
  IN  IF ~IsJSRepr(sourceIndex)
        THEN [heap |-> h1, panic |-> TRUE, ret |-> 0]
        ELSE [heap |-> h4, panic |-> FALSE, ret |-> partIndex]

AddPartToFile(sourceIndex, arg) ==
  /\ pc = "done"
  /\ ops < MaxOps
  /\ LET r == AddPartToFileResult(sourceIndex, arg)
     IN  /\ heap' = r.heap
         /\ pc' = IF r.panic THEN "panic" ELSE "done"
         /\ log' = IF r.panic THEN log
                   ELSE [log EXCEPT !.adds = Append(@,
                           [sourceIndex |-> sourceIndex, arg |-> arg,
                            ret |-> r.ret])]
  /\ ops' = ops + 1
  /\ UNCHANGED <<argVars, dispatched, task, entryPoints, files, symbols,
                 stableSourceIndices, dynamicImportEntryPoints, mutex,
                 waitGroup, stableEntryPoints, tsEnums, constValues, pool0>>

\* js_ast.Symbol{Kind: kind, OriginalName: originalName, Link: InvalidRef}
NewSymbol(kind, originalName) ==
  [Kind |-> kind, OriginalName |-> originalName, Link |-> InvalidRef]

\* Mutant of NewInnerIndex: the index of the last symbol there is
LastInnerIndex(sourceSymbols) == sourceSymbols.len - 1

\* InnerIndex: uint32(len(*sourceSymbols))
NewInnerIndex(sourceSymbols) == sourceSymbols.len

GenerateNewSymbolResult(sourceIndex, kind, originalName) ==
  LET sourceSymbols == symbols[sourceIndex]
      ref  == Ref(sourceIndex, NewInnerIndex(sourceSymbols))
      own  == Addr("lk", sourceIndex, "symbols", 0)
      h1   == AppendHeap(heap, sourceSymbols,
                         NewSymbol(kind, originalName), own)
      syms == [symbols EXCEPT ![sourceIndex] =
                 AppendSlice(heap, sourceSymbols, own)]
      sc   == h1[ReprPtr(sourceIndex)].AST.ModuleScope
      gen  == h1[sc].Generated
      gown == Addr("lk", sourceIndex, "generated", 0)
      h2   == AppendHeap(h1, gen, ref, gown)
      h3   == [h2 EXCEPT ![sc].Generated = AppendSlice(h1, gen, gown)]
  IN  IF ~IsJSRepr(sourceIndex)
        THEN [heap |-> h1, symbols |-> syms, panic |-> TRUE, ret |-> ref]
        ELSE [heap |-> h3, symbols |-> syms, panic |-> FALSE, ret |-> ref]

GenerateNewSymbol(sourceIndex, kind, originalName) ==
  /\ pc = "done"
  /\ ops < MaxOps
  /\ LET r == GenerateNewSymbolResult(sourceIndex, kind, originalName)
     IN  /\ heap' = r.heap
         /\ symbols' = r.symbols
         /\ pc' = IF r.panic THEN "panic" ELSE "done"
         /\ log' = IF r.panic THEN log
                   ELSE [log EXCEPT !.gens = Append(@,
                           [sourceIndex |-> sourceIndex, kind |-> kind,
                            originalName |-> originalName, ret |-> r.ret])]
  /\ ops' = ops + 1
  /\ UNCHANGED <<argVars, dispatched, task, entryPoints, files,
                 stableSourceIndices, dynamicImportEntryPoints, mutex,
                 waitGroup, stableEntryPoints, tsEnums, constValues, pool0>>

ZeroSymbolUse == [CountEstimate |-> U32(0)]

\* Mutant of AddUseCount: the count is overwritten
OverwriteUseCount(countEstimate, useCount) == useCount

\* use.CountEstimate += useCount
AddUseCount(countEstimate, useCount) ==
  Add32Wrapping(countEstimate, useCount)

\* use := part.SymbolUses[ref]; use.CountEstimate += useCount;
\* part.SymbolUses[ref] = use
RecordUse(m, ref, useCount) ==
  MapPut(m, ref,
         [MapGet(m, ref, ZeroSymbolUse) EXCEPT !.CountEstimate =
            AddUseCount(@, useCount)])

\* Mutant of MarkCommonJSUse: the flags are assigned the comparison
MarkCommonJSUseAssigned(repr, ref) ==
  [repr EXCEPT !.AST.UsesExportsRef = (ref = repr.AST.ExportsRef),
               !.AST.UsesModuleRef = (ref = repr.AST.ModuleRef)]

\* Uphold invariants about the CommonJS "exports" and "module" symbols
MarkCommonJSUse(repr, ref) ==
  [repr EXCEPT !.AST.UsesExportsRef = @ \/ (ref = repr.AST.ExportsRef),
               !.AST.UsesModuleRef = @ \/ (ref = repr.AST.ModuleRef)]

\* Mutant of IsImportFromOtherFile: every use is taken for an import
ImportAlways(sourceIndex, ref, sourceIndexToImportFrom) == TRUE

\* sourceIndexToImportFrom != sourceIndex
IsImportFromOtherFile(sourceIndex, ref, sourceIndexToImportFrom) ==
  sourceIndexToImportFrom # sourceIndex

\* Track that this specific symbol was imported
TrackImport(repr, sourceIndex, ref, sourceIndexToImportFrom) ==
  IF IsImportFromOtherFile(sourceIndex, ref, sourceIndexToImportFrom)
    THEN [repr EXCEPT !.Meta.ImportsToBind =
            [nil |-> FALSE,
             kv  |-> MapPut(@.kv, ref,
                       [SourceIndex |-> sourceIndexToImportFrom,
                        Ref |-> ref])]]
    ELSE repr

\* JSRepr.TopLevelSymbolToParts: the overlay's entry when there is one, else
\* the parser's
TopLevelSymbolToParts(repr, ref) ==
  IF ref \in DOMAIN repr.Meta.TopLevelSymbolToPartsOverlay.kv
    THEN repr.Meta.TopLevelSymbolToPartsOverlay.kv[ref]
    ELSE MapGet(repr.AST.TopLevelSymbolToPartsFromParser, ref, << >>)

\* Mutant of NewDependencies: the loop takes the index of the range, not
\* its value
DependenciesOnRangeIndex(targetRepr, ref, sourceIndexToImportFrom) ==
  LET declaring == TopLevelSymbolToParts(targetRepr, ref)
  IN  [i \in 1 .. Len(declaring) |->
         [SourceIndex |-> sourceIndexToImportFrom,
          PartIndex   |-> i - 1]]

\* Pull in all parts that declare this symbol
NewDependencies(targetRepr, ref, sourceIndexToImportFrom) ==
  LET declaring == TopLevelSymbolToParts(targetRepr, ref)
  IN  [i \in 1 .. Len(declaring) |->
         [SourceIndex |-> sourceIndexToImportFrom,
          PartIndex   |-> declaring[i]]]

\* Mutant of IsZeroUse: the call goes on with a use count of zero
ZeroUseGoesOn(useCount) == FALSE

\* if useCount == 0 { return }
IsZeroUse(useCount) == useCount = U32(0)

GenerateSymbolImportAndUseResult(sourceIndex, partIndex, ref, useCount, sourceIndexToImportFrom) ==
  LET rp    == ReprPtr(sourceIndex)
      parts == PartsOf(heap, sourceIndex)
      part  == At(heap[parts.arr], partIndex)
      h1    == [heap EXCEPT ![part.SymbolUses] = RecordUse(@, ref, useCount)]
      h2    == [h1 EXCEPT ![rp] = MarkCommonJSUse(@, ref)]
      h3    == [h2 EXCEPT ![rp] =
                  TrackImport(@, sourceIndex, ref, sourceIndexToImportFrom)]
      deps  == NewDependencies(h3[ReprPtr(sourceIndexToImportFrom)], ref,
                               sourceIndexToImportFrom)
      h4    == [h3 EXCEPT ![parts.arr][partIndex + 1].Dependencies =
                  @ \o deps]
  IN  CASE IsZeroUse(useCount) ->
             [heap |-> heap, panic |-> FALSE, counted |-> FALSE]
        [] ~IsJSRepr(sourceIndex) \/ partIndex >= parts.len
             \/ part.SymbolUses = NilAddr ->
             [heap |-> heap, panic |-> TRUE, counted |-> FALSE]
        [] ~IsJSRepr(sourceIndexToImportFrom) ->
             [heap |-> h3, panic |-> TRUE, counted |-> TRUE]
        [] OTHER ->
             [heap |-> h4, panic |-> FALSE, counted |-> TRUE]

\* log.uses with the call counted: per (file, part, symbol), the sum of
\* the use counts passed, as a natural number
LogUse(uses, sourceIndex, partIndex, ref, useCount) ==
  LET key == <<sourceIndex, partIndex, ref>>
  IN  MapPut(uses, key, AddExact(MapGet(uses, key, U32(0)), useCount))

\* The history l with the call counted among those made with a use count
\* of 0, when it is one
LogZeroUse(l, useCount) ==
  IF useCount = U32(0) THEN [l EXCEPT !.zeroUses = @ + 1] ELSE l

GenerateSymbolImportAndUse(sourceIndex, partIndex, ref, useCount, sourceIndexToImportFrom) ==
  /\ pc = "done"
  /\ ops < MaxOps
  /\ LET r == GenerateSymbolImportAndUseResult(sourceIndex, partIndex, ref,
                useCount, sourceIndexToImportFrom)
     IN  /\ heap' = r.heap
         /\ pc' = IF r.panic THEN "panic" ELSE "done"
         /\ log' = LogZeroUse(
                      IF r.counted
                        THEN [log EXCEPT !.uses =
                                LogUse(@, sourceIndex, partIndex, ref, useCount)]
                        ELSE log,
                      useCount)
  /\ ops' = ops + 1
  /\ UNCHANGED <<argVars, dispatched, task, entryPoints, files, symbols,
                 stableSourceIndices, dynamicImportEntryPoints, mutex,
                 waitGroup, stableEntryPoints, tsEnums, constValues, pool0>>

\* runtime.SourceIndex
RuntimeSourceIndex == 0

\* runtimeRepr.AST.NamedExports[name].Ref
RuntimeHelperRef(h, name) ==
  MapGet(h[ReprPtr(RuntimeSourceIndex)].AST.NamedExports, name,
         [Ref |-> Ref(0, 0), AliasLoc |-> 0]).Ref

\* if useCount == 0 { return }
IsZeroRuntimeUse(useCount) == useCount = U32(0)

GenerateRuntimeSymbolImportAndUse(sourceIndex, partIndex, name, useCount) ==
  IF IsZeroRuntimeUse(useCount)
    THEN /\ pc = "done"
         /\ ops < MaxOps
         /\ ops' = ops + 1
         /\ log' = LogZeroUse(log, useCount)
         /\ UNCHANGED <<argVars, heap, buildVars, pool0>>
    ELSE IF ~IsJSRepr(RuntimeSourceIndex)
      THEN /\ pc = "done"
           /\ ops < MaxOps
           /\ ops' = ops + 1
           /\ pc' = "panic"
           /\ UNCHANGED <<argVars, heap, dispatched, task, entryPoints,
                          files, symbols, stableSourceIndices,
                          dynamicImportEntryPoints, mutex, waitGroup,
                          stableEntryPoints, tsEnums, constValues, log,
                          pool0>>
      ELSE GenerateSymbolImportAndUse(sourceIndex, partIndex,
             RuntimeHelperRef(heap, name), useCount, RuntimeSourceIndex)

\* The arguments tried
UseCounts == {U32(0), U32(2), U32(3), MaxUint32}

\* Part 1 is a parser's part with a use map; part 2 exists once a part has
\* been added
PartIndexArgs == {1, 2}

\* The file after f in reachableFiles (the first one after the last, and
\* for a file that is not reachable)
NextReachable(f) ==
  LET n == Len(reachableFiles)
      here == {i \in 1 .. n : reachableFiles[i] = f}
  IN  IF here = {} THEN reachableFiles[1]
      ELSE reachableFiles[((CHOOSE i \in here : TRUE) % n) + 1]

\* The files a use is imported from: the using file, and another one
FromArgs(f) == {f, NextReachable(f)}

\* A reference to a symbol that file f never has: beyond the parser's
\* symbols and those that the calls can generate
MissingRef(f) == Ref(f, Len(ParsedSymbols(f)) + MaxOps)

RefArgs(sourceIndex, from) ==
  {Ref(sourceIndex, 0), Ref(sourceIndex, 1), Ref(from, 2), MissingRef(from)}

\* ------------------------------------------------------------------------
\* Specifications
\* ------------------------------------------------------------------------

NextBuild ==
  \/ Begin
  \/ Dispatch
  \/ \E f \in FileIds : TaskClone(f)
  \/ \E f \in FileIds : TaskSkipRecord(f)
  \/ \E f \in FileIds : TaskLock(f)
  \/ \E f \in FileIds : TaskAppend(f)
  \/ \E f \in FileIds : TaskUnlock(f)
  \/ \E f \in FileIds : TaskFinish(f)
  \/ WaitGroupWait
  \/ Promote
  \/ SortAndAppend
  \/ FinalPass
  \/ Return

\* Every shape, every assignment of identities, every entry list
InitBuild ==
  \E shape \in Shapes :
    \E perm \in Perms(Len(shape.kinds)) :
      \E eps \in EntryChoices(Len(shape.kinds)) :
        \E cs \in BOOLEAN :
          Start(shape, perm, eps, cs)

SpecBuild == InitBuild /\ [][NextBuild]_vars

Mutate ==
  \/ \E f \in FileIds : \E arg \in PartArgs(f) : AddPartToFile(f, arg)
  \/ \E f \in FileIds : GenerateNewSymbol(f, "other", "generated")
  \/ \E f \in FileIds : \E p \in PartIndexArgs : \E from \in FromArgs(f) :
       \E ref \in RefArgs(f, from) : \E n \in UseCounts :
         GenerateSymbolImportAndUse(f, p, ref, n, from)
  \/ \E f \in FileIds : \E p \in PartIndexArgs : \E n \in UseCounts :
       GenerateRuntimeSymbolImportAndUse(f, p, "x", n)

Next == NextBuild \/ Mutate

\* The shapes on which the mutators are explored, identities in order
Init ==
  \E shape \in {ShapeCSS, ShapePair} :
    Start(shape, IdentityPerm(Len(shape.kinds)), <<0>>, TRUE)

Spec == Init /\ [][Next]_vars

\* ------------------------------------------------------------------------
\* Views of the input and of the result, used by the properties
\* ------------------------------------------------------------------------

Reachable == Range(reachableFiles)

\* The position (from 0) of a reachable file in reachableFiles
PosIn(f) == (CHOOSE i \in 1 .. Len(reachableFiles) : reachableFiles[i] = f) - 1

\* The representation and the import records of f as they were handed over
InputRepr(f) == pool0.heap[pool0.files[f].Repr.ptr]

InputRecords(f) == Elems(pool0.heap, InputRepr(f).AST.ImportRecords)

InputIsJS(f) == pool0.files[f].Repr.type = "JS"

InputEntryPoints == Elems(pool0.heap, originalEntryPoints)

InitialEntryFiles == {InputEntryPoints[i].SourceIndex :
                        i \in 1 .. Len(InputEntryPoints)}

\* The records of f that are dynamic imports of a file
DynamicRecordsOf(f) ==
  IF InputIsJS(f)
    THEN {i \in 1 .. Len(InputRecords(f)) :
            /\ InputRecords(f)[i].Kind = "dynamic"
            /\ InputRecords(f)[i].SourceIndex.valid}
    ELSE {}

\* How many dynamic import records of reachable files are resolved to x
NumDynamicImportsOf(x) ==
  Cardinality({<<f, i>> \in Reachable \X (1 .. (MaxDup + 2)) :
                 /\ i \in DynamicRecordsOf(f)
                 /\ InputRecords(f)[i].SourceIndex.index = x})

\* The files some reachable file imports dynamically
DynamicTargets == {x \in FileIds : NumDynamicImportsOf(x) > 0}

\* The files that construction is to promote to entry points
PromotedFiles ==
  IF codeSplitting THEN DynamicTargets \ InitialEntryFiles ELSE {}

\* The elements of a set of integers in increasing order
RECURSIVE Ascending(_)
Ascending(S) ==
  IF S = {}
    THEN << >>
    ELSE LET m == CHOOSE x \in S : \A y \in S : x <= y
         IN  <<m>> \o Ascending(S \ {m})

FinalEntryPoints == Elems(heap, entryPoints)

Built == pc \in {"return", "done", "panic"}

\* The dynamic import targets of f's records from record i (from 1) on
RECURSIVE CandidatesOfFrom(_, _)
CandidatesOfFrom(f, i) ==
  IF i > Len(InputRecords(f))
    THEN << >>
    ELSE (IF i \in DynamicRecordsOf(f)
            THEN <<InputRecords(f)[i].SourceIndex.index>>
            ELSE << >>) \o CandidatesOfFrom(f, i + 1)

\* The candidate list when the tasks run one after the other, in the order
\* of reachableFiles
RECURSIVE SequentialCandidatesFrom(_)
SequentialCandidatesFrom(i) ==
  IF i > Len(reachableFiles) \/ ~codeSplitting
    THEN << >>
    ELSE CandidatesOfFrom(reachableFiles[i], 1)
           \o SequentialCandidatesFrom(i + 1)

PositionOrZero(f) == IF f \in Reachable THEN PosIn(f) ELSE 0

\* What the serial phase makes of the candidate list of the sequential
\* schedule
SequentialResult ==
  LET marked == MarkEntryPoints([f \in FileIds |-> ZeroLinkerFile],
                                InputEntryPoints)
      r      == PromoteFrom(SequentialCandidatesFrom(1), 1, marked,
                            [f \in FileIds |-> PositionOrZero(f)], << >>)
      sorted == SortInts(r.stableEntryPoints)
  IN  [entryPoints |-> InputEntryPoints \o
                         [i \in 1 .. Len(sorted) |->
                            DynamicEntryPoint(sorted[i])],
       kinds       |-> [f \in FileIds |-> r.files[f].entryPointKind]]

\* The merge of the input's tables, in the order of reachableFiles
RECURSIVE InputTablesFrom(_, _, _)
InputTablesFrom(field, i, acc) ==
  IF i > Len(reachableFiles)
    THEN acc
    ELSE LET f == reachableFiles[i]
             t == IF InputIsJS(f)
                    THEN IF field = "TSEnums" THEN InputRepr(f).AST.TSEnums
                                              ELSE InputRepr(f).AST.ConstValues
                    ELSE NilMap
         IN  InputTablesFrom(field, i + 1,
               IF t.nil THEN acc
               ELSE [nil |-> FALSE,
                     kv  |-> [x \in (DOMAIN acc.kv) \cup (DOMAIN t.kv) |->
                                IF x \in DOMAIN t.kv THEN t.kv[x]
                                                     ELSE acc.kv[x]]])

\* ------------------------------------------------------------------------
\* C1.  Whatever the interleaving of the clone tasks (the order in which
\* they take the lock and append their candidates, the order in which they
\* finish), CloneLinkerGraph ends with the entry points, the entry point
\* kinds, the stable index mapping and the merged tables that it ends with
\* when the tasks run one after the other: the result is the same for
\* every schedule.
\* ------------------------------------------------------------------------
C1_SameResultForEverySchedule ==
  Built =>
    /\ FinalEntryPoints = SequentialResult.entryPoints
    /\ \A f \in FileIds : files[f].entryPointKind = SequentialResult.kinds[f]
    /\ stableSourceIndices = [f \in FileIds |-> PositionOrZero(f)]
    /\ tsEnums = InputTablesFrom("TSEnums", 1, NilMap)
    /\ constValues = InputTablesFrom("ConstValues", 1, NilMap)

\* The result is there, and the tasks appended their candidates in another
\* order than the sequential schedule does; two files were promoted
C1_Witness ==
  /\ pc = "return"
  /\ dynamicImportEntryPoints # SequentialCandidatesFrom(1)
  /\ Len(FinalEntryPoints) >= Len(InputEntryPoints) + 2
  /\ ~tsEnums.nil

\* ------------------------------------------------------------------------
\* C2.  The result, read through the stable indices, depends on the input
\* read through the positions in reachableFiles only.  Two inputs that
\* differ by a permutation of the file identities read the same through
\* their positions, so their entry point lists (each SourceIndex mapped
\* through StableSourceIndices) and their merged tables (each key's file
\* mapped likewise) are equal.
\* ------------------------------------------------------------------------

\* The entries of table kv with the file of each key relabeled
RelabelKeys(kv, label) ==
  LET to(r) == Ref(label[r.SourceIndex], r.InnerIndex)
  IN  [k \in {to(r) : r \in DOMAIN kv} |->
         kv[CHOOSE r \in DOMAIN kv : to(r) = k]]

RelabelTable(t, label) == [nil |-> t.nil, kv |-> RelabelKeys(t.kv, label)]

PositionLabel == [f \in FileIds |-> PositionOrZero(f)]

\* The final entry points with the file of each replaced by its stable index
EntryPointsByStableIndex ==
  [i \in 1 .. Len(FinalEntryPoints) |->
     [OutputPath  |-> FinalEntryPoints[i].OutputPath,
      StableIndex |-> stableSourceIndices[FinalEntryPoints[i].SourceIndex],
      OutputPathWasAutoGenerated |->
        FinalEntryPoints[i].OutputPathWasAutoGenerated]]

\* The same list, from the input read through positions
EntryPointsByPosition ==
  LET promoted == Ascending({PosIn(x) : x \in PromotedFiles})
  IN  [i \in 1 .. Len(InputEntryPoints) |->
         [OutputPath  |-> InputEntryPoints[i].OutputPath,
          StableIndex |-> PosIn(InputEntryPoints[i].SourceIndex),
          OutputPathWasAutoGenerated |->
            InputEntryPoints[i].OutputPathWasAutoGenerated]]
      \o [i \in 1 .. Len(promoted) |->
            [OutputPath  |-> <<"", 0>>,
             StableIndex |-> promoted[i],
             OutputPathWasAutoGenerated |-> FALSE]]

C2_SameResultForEveryRelabeling ==
  Built =>
    /\ EntryPointsByStableIndex = EntryPointsByPosition
    /\ RelabelTable(tsEnums, stableSourceIndices) =
         RelabelTable(InputTablesFrom("TSEnums", 1, NilMap), PositionLabel)
    /\ RelabelTable(constValues, stableSourceIndices) =
         RelabelTable(InputTablesFrom("ConstValues", 1, NilMap),
                      PositionLabel)

\* Two files are promoted whose identities are ordered the other way round
\* than their positions
C2_Witness ==
  /\ Built
  /\ \E x, y \in PromotedFiles : x < y /\ PosIn(x) > PosIn(y)
  /\ ~tsEnums.nil
  /\ ~constValues.nil

\* ------------------------------------------------------------------------
\* C4.  With code splitting, a file that reachable files import dynamically
\* (however many records name it) is in the final entry point list exactly
\* once, as a dynamic-import entry point; unless it is one of the caller's
\* entry points: then it stays user-specified and is in the list as often
\* as the caller listed it.
\* ------------------------------------------------------------------------

CountOf(eps, x) == Cardinality({i \in 1 .. Len(eps) : eps[i].SourceIndex = x})

C4_DynamicEntryOnce ==
  (Built /\ codeSplitting) =>
    \A x \in DynamicTargets :
      IF x \in InitialEntryFiles
        THEN /\ files[x].entryPointKind = "entryPointUserSpecified"
             /\ CountOf(FinalEntryPoints, x) = CountOf(InputEntryPoints, x)
        ELSE /\ files[x].entryPointKind = "entryPointDynamicImport"
             /\ CountOf(FinalEntryPoints, x) = 1

\* The files whose records import x dynamically
DynamicImportersOf(x) ==
  {f \in Reachable :
     \E i \in DynamicRecordsOf(f) : InputRecords(f)[i].SourceIndex.index = x}

\* One promoted file has two importers, one of them with several records
\* for it, and a caller's entry point is imported dynamically too
C4_Witness ==
  /\ Built
  /\ codeSplitting
  /\ \E x \in PromotedFiles :
       /\ Cardinality(DynamicImportersOf(x)) >= 2
       /\ NumDynamicImportsOf(x) >= 3
       /\ CountOf(FinalEntryPoints, x) = 1
  /\ \E y \in DynamicTargets \cap InitialEntryFiles :
       files[y].entryPointKind = "entryPointUserSpecified"

\* ------------------------------------------------------------------------
\* C5.  The final entry point list is the caller's list, unchanged and in
\* its order, followed by the promoted files in increasing stable index
\* (position in reachableFiles), whatever their identities; without code
\* splitting it is the caller's list.  The caller's slice and its backing
\* array are never written.
\* ------------------------------------------------------------------------

ExpectedEntryPoints ==
  LET promoted == Ascending({PosIn(x) : x \in PromotedFiles})
  IN  InputEntryPoints \o
      [i \in 1 .. Len(promoted) |->
         [OutputPath  |-> <<"", 0>>,
          SourceIndex |-> At(reachableFiles, promoted[i]),
          OutputPathWasAutoGenerated |-> FALSE]]

C5_EntryPointList ==
  /\ heap[CallerEntriesAddr] = pool0.heap[CallerEntriesAddr]
  /\ Built =>
       /\ FinalEntryPoints = ExpectedEntryPoints
       /\ ~codeSplitting => FinalEntryPoints = InputEntryPoints

\* Two files were appended, the first with the larger identity
C5_Witness ==
  /\ Built
  /\ Len(FinalEntryPoints) = Len(InputEntryPoints) + 2
  /\ FinalEntryPoints[Len(FinalEntryPoints) - 1].SourceIndex >
       FinalEntryPoints[Len(FinalEntryPoints)].SourceIndex

\* ------------------------------------------------------------------------
\* C6.  In the returned graph a dynamic import record whose target was
\* promoted to an entry point has no import assertions left.  Without code
\* splitting nothing is promoted and every record has the assertions it
\* had.  A record that is no dynamic import has the assertions it had, with
\* code splitting and without.
\* ------------------------------------------------------------------------

LinkerRecords(f) == Elems(heap, heap[ReprPtr(f)].AST.ImportRecords)

C6_AssertionsOfImportRecords ==
  Built =>
    /\ ~codeSplitting =>
         \A f \in FileIds :
           files[f].entryPointKind # "entryPointDynamicImport"
    /\ \A f \in Reachable :
         /\ Len(LinkerRecords(f)) = Len(InputRecords(f))
         /\ \A i \in 1 .. Len(InputRecords(f)) :
              LET was == InputRecords(f)[i]
                  now == LinkerRecords(f)[i]
              IN  /\ (/\ codeSplitting
                      /\ i \in DynamicRecordsOf(f)
                      /\ files[was.SourceIndex.index].entryPointKind =
                           "entryPointDynamicImport")
                       => now.Assertions = "nil"
                  /\ ~codeSplitting => now.Assertions = was.Assertions
                  /\ was.Kind # "dynamic" => now.Assertions = was.Assertions

\* With code splitting: a record of a promoted file is cleared, beside a
\* static record that kept its assertions
C6_Witness ==
  /\ Built
  /\ codeSplitting
  /\ \E f \in Reachable :
       \E i, j \in 1 .. Len(InputRecords(f)) :
         /\ i \in DynamicRecordsOf(f)
         /\ InputRecords(f)[i].SourceIndex.index \in PromotedFiles
         /\ InputRecords(f)[i].Assertions = "assert"
         /\ LinkerRecords(f)[i].Assertions = "nil"
         /\ InputRecords(f)[j].Kind = "stmt"
         /\ LinkerRecords(f)[j].Assertions = "assert"

\* ------------------------------------------------------------------------
\* C7.  Once the final pass is done every reachable file has an entry bit
\* set of E clear bits, E the length of the final entry point list: the
\* caller's entries and the promoted ones.  Before that no reachable file
\* has a bit set at all, so none is ever sized to an earlier count.
\* ------------------------------------------------------------------------

FinalEntryCount == Len(InputEntryPoints) + Cardinality(PromotedFiles)

C7_EntryBits ==
  \A f \in Reachable :
    IF Built
      THEN /\ files[f].EntryBits = [i \in 1 .. FinalEntryCount |-> FALSE]
           /\ Len(files[f].EntryBits) = entryPoints.len
      ELSE files[f].EntryBits = << >>

\* Files were promoted, and the bit sets have a bit for each of them
C7_Witness ==
  /\ Built
  /\ Cardinality(PromotedFiles) >= 2
  /\ \A f \in Reachable :
       Len(files[f].EntryBits) = Len(InputEntryPoints) + 2

\* ------------------------------------------------------------------------
\* C3.  In every state, during construction, after it and after any mutator
\* calls on the returned graph, every reachable input file has the part
\* list (each part with its use map), the symbol list, the import record
\* list (with the assertions) and the named import and export maps that it
\* was handed over with.
\* ------------------------------------------------------------------------

\* The use map behind a part's reference, by value
UsesIn(h, a) == IF a = NilAddr THEN NilMap ELSE [nil |-> FALSE, kv |-> h[a]]

\* What is read of file f through the pool fs and the heap h
InputValueIn(fs, h, f) ==
  LET repr == h[fs[f].Repr.ptr]
  IN  IF fs[f].Repr.type = "JS"
        THEN [Parts |->
                LET ps == Elems(h, repr.AST.Parts)
                IN  [i \in 1 .. Len(ps) |->
                       [SymbolUses      |-> UsesIn(h, ps[i].SymbolUses),
                        DeclaredSymbols |-> ps[i].DeclaredSymbols,
                        Dependencies    |-> ps[i].Dependencies]],
              Symbols       |-> Elems(h, repr.AST.Symbols),
              ImportRecords |-> Elems(h, repr.AST.ImportRecords),
              NamedImports  |-> h[repr.AST.NamedImports],
              NamedExports  |-> repr.AST.NamedExports]
        ELSE [ImportRecords |-> Elems(h, repr.AST.ImportRecords)]

C3_InputFilesUnchanged ==
  \A f \in Reachable :
    InputValueIn(inputFiles, heap, f) = InputValueIn(pool0.files, pool0.heap, f)

LinkerParts(f) == Elems(heap, PartsOf(heap, f))

\* Two mutator calls were made, and the linking file of a reachable input
\* file has another part list, other use counts and other import records
\* than the input file
C3_Witness ==
  /\ pc = "done"
  /\ Len(log.adds) = 1
  /\ DOMAIN log.uses # {}
  /\ \E f \in Reachable :
       /\ IsJSRepr(f)
       /\ Len(LinkerParts(f)) = 3
       /\ heap[LinkerParts(f)[2].SymbolUses] #
            pool0.heap[Addr("in", f, "uses", 1)]
       /\ Elems(heap, heap[ReprPtr(f)].AST.ImportRecords) # InputRecords(f)
       /\ Elems(heap, symbols[f]) = Elems(pool0.heap, InputRepr(f).AST.Symbols)

\* ------------------------------------------------------------------------
\* C8.  Once CloneLinkerGraph has built the graph, and after any calls of
\* AddPartToFile (and of the other mutators), every part of every reachable
\* JS linking file has a use map that is present: a part the parser made
\* has a map of its own, also when the parser gave it none, and a part
\* added without a map has one that is empty until uses are recorded on it.
\* ------------------------------------------------------------------------

\* The symbols for which a use on part partIndex of file f was recorded
UsedOn(f, partIndex) ==
  {k[3] : k \in {x \in DOMAIN log.uses : x[1] = f /\ x[2] = partIndex}}

C8_SymbolUsesPresent ==
  Built =>
    /\ \A f \in Reachable :
         IsJSRepr(f) =>
           \A i \in 1 .. Len(LinkerParts(f)) :
             /\ LinkerParts(f)[i].SymbolUses # NilAddr
             /\ LinkerParts(f)[i].SymbolUses \in DOMAIN heap
             /\ LinkerParts(f)[i].SymbolUses \notin DOMAIN pool0.heap
    /\ \A n \in 1 .. Len(log.adds) :
         LET add == log.adds[n]
         IN  add.arg.uses.nil =>
               DOMAIN heap[LinkerParts(add.sourceIndex)[add.ret + 1].SymbolUses]
                 = UsedOn(add.sourceIndex, add.ret)

\* A part was added without a use map and holds an empty one; the parser's
\* first part, which had none either, holds one too
C8_Witness ==
  /\ pc = "done"
  /\ \E n \in 1 .. Len(log.adds) :
       LET add == log.adds[n]
       IN  /\ add.arg.uses.nil
           /\ heap[LinkerParts(add.sourceIndex)[add.ret + 1].SymbolUses] = << >>
           /\ At(Elems(pool0.heap, InputRepr(add.sourceIndex).AST.Parts), 0)
                .SymbolUses = NilAddr
           /\ heap[LinkerParts(add.sourceIndex)[1].SymbolUses] = << >>

\* ------------------------------------------------------------------------
\* C9.  After any calls of AddPartToFile, for every symbol that an added
\* part declares at the top level, the overlay's entry is the parts the
\* parser recorded for the symbol followed by the indices of the added
\* parts that declare it at the top level, in the order of the calls; each
\* call returned the length the part list had before it; and the parser's
\* table is the one the input came with.
\* ------------------------------------------------------------------------

DeclaresTopLevel(arg, ref) ==
  \E i \in 1 .. Len(arg.DeclaredSymbols) :
    /\ arg.DeclaredSymbols[i].Ref = ref
    /\ arg.DeclaredSymbols[i].IsTopLevel

\* The calls of AddPartToFile made on file f, in order
AddsOn(f) == SelectSeq(log.adds, LAMBDA a : a.sourceIndex = f)

\* The indices returned by the calls on f whose part declares ref at the
\* top level, in order
AddedDeclaringParts(f, ref) ==
  LET calls == SelectSeq(AddsOn(f), LAMBDA a : DeclaresTopLevel(a.arg, ref))
  IN  [i \in 1 .. Len(calls) |-> calls[i].ret]

\* The symbols tried
RefUniverse == {Ref(g, i) : g \in FileIds, i \in 0 .. 2}
                 \cup {MissingRef(g) : g \in FileIds}

C9_OverlayComplete ==
  (pc \in {"done", "panic"}) =>
    \A f \in Reachable :
      IsJSRepr(f) =>
        /\ \A i \in 1 .. Len(AddsOn(f)) :
             AddsOn(f)[i].ret =
               Len(Elems(pool0.heap, InputRepr(f).AST.Parts)) + i - 1
        /\ heap[ReprPtr(f)].AST.TopLevelSymbolToPartsFromParser =
             InputRepr(f).AST.TopLevelSymbolToPartsFromParser
        /\ heap[inputFiles[f].Repr.ptr].AST.TopLevelSymbolToPartsFromParser =
             InputRepr(f).AST.TopLevelSymbolToPartsFromParser
        /\ \A ref \in RefUniverse :
             AddedDeclaringParts(f, ref) # << >> =>
               /\ ref \in
                    DOMAIN heap[ReprPtr(f)].Meta.TopLevelSymbolToPartsOverlay.kv
               /\ heap[ReprPtr(f)].Meta.TopLevelSymbolToPartsOverlay.kv[ref] =
                    MapGet(InputRepr(f).AST.TopLevelSymbolToPartsFromParser,
                           ref, << >>)
                      \o AddedDeclaringParts(f, ref)

\* Two parts were added to a file that declare the symbol of the parser's
\* two parts: the entry names all four
C9_Witness ==
  /\ pc = "done"
  /\ \E f \in Reachable :
       /\ IsJSRepr(f)
       /\ Len(AddsOn(f)) = 2
       /\ heap[ReprPtr(f)].Meta.TopLevelSymbolToPartsOverlay.kv[Ref(f, 2)] =
            <<0, 1, 2, 3>>

\* ------------------------------------------------------------------------
\* C10.  After any calls of GenerateSymbolImportAndUse for one file, part
\* and symbol, the symbol's use count estimate on the part is its value
\* before the calls (0 without an entry) plus the sum of the use counts of
\* the calls, in uint32 arithmetic: the sum modulo 2^32.  It is the sum
\* itself as long as that is below 2^32: counts 2 and 3 leave it at 5.
\* ------------------------------------------------------------------------

\* The use map part partIndex of file f started with: the parser's, or the
\* one of the part handed to AddPartToFile
BaseUses(f, partIndex) ==
  LET parsed == Elems(pool0.heap, InputRepr(f).AST.Parts)
  IN  IF partIndex < Len(parsed)
        THEN UsesIn(pool0.heap, At(parsed, partIndex).SymbolUses).kv
        ELSE At(AddsOn(f), partIndex - Len(parsed)).arg.uses.kv

BaseCount(f, partIndex, ref) ==
  MapGet(BaseUses(f, partIndex), ref, ZeroSymbolUse).CountEstimate

\* The sum of the use counts recorded, as a natural number
RecordedSum(f, partIndex, ref) ==
  MapGet(log.uses, <<f, partIndex, ref>>, U32(0))

CountNow(f, partIndex, ref) ==
  MapGet(heap[At(LinkerParts(f), partIndex).SymbolUses], ref, ZeroSymbolUse)
    .CountEstimate

\* n modulo 2^32
Low32(n) == <<n[1] % Half, n[2]>>

C10_UseCountIsSumModulo ==
  (pc \in {"done", "panic"}) =>
    \A f \in Reachable :
      IsJSRepr(f) =>
        \A p \in 0 .. (Len(LinkerParts(f)) - 1) : \A ref \in RefUniverse :
          CountNow(f, p, ref) =
            Low32(AddExact(BaseCount(f, p, ref), RecordedSum(f, p, ref)))

\* The claim as it was made: the estimate is the value before plus the sum
C10_UseCountIsSum ==
  (pc \in {"done", "panic"}) =>
    \A f \in Reachable :
      IsJSRepr(f) =>
        \A p \in 0 .. (Len(LinkerParts(f)) - 1) : \A ref \in RefUniverse :
          CountNow(f, p, ref) =
            AddExact(BaseCount(f, p, ref), RecordedSum(f, p, ref))

\* Counts 2 and 3 were recorded for a symbol without an entry: it is at 5
C10_Witness ==
  /\ pc = "done"
  /\ \E f \in Reachable : \E ref \in RefUniverse :
       /\ IsJSRepr(f)
       /\ BaseCount(f, 1, ref) = U32(0)
       /\ RecordedSum(f, 1, ref) = U32(5)
       /\ CountNow(f, 1, ref) = U32(5)

\* ------------------------------------------------------------------------
\* C11.  A call of GenerateSymbolImportAndUse or of
\* GenerateRuntimeSymbolImportAndUse with a use count of 0 returns and
\* changes nothing, whatever its other arguments (a file that is not
\* reachable or is a stylesheet, a part that does not exist): the use maps
\* (no entry is made for the symbol), the dependencies, the imports to bind
\* and the CommonJS flags are as before, and the call does not panic.
\* ------------------------------------------------------------------------

\* The step is a call of one of the two with a use count of 0
ZeroUseCall == log'.zeroUses # log.zeroUses

C11_ZeroUseIsNoOp ==
  [][ZeroUseCall =>
       /\ pc' = "done"
       /\ log' = [log EXCEPT !.zeroUses = @ + 1]
       /\ UNCHANGED <<heap, files, symbols, argVars, pool0>>]_vars

\* Calls with a use count of 0 were made, and returned
C11_Witness ==
  /\ pc = "done"
  /\ log.zeroUses = MaxOps
  /\ ops = MaxOps

\* ------------------------------------------------------------------------
\* Steps that are calls of GenerateSymbolImportAndUse with a use count
\* above 0 that got as far as counting the use
\* ------------------------------------------------------------------------

\* The file, part and symbol of which the step recorded a use: <<f, p, ref>>
CountedUses ==
  IF log'.uses = log.uses
    THEN {}
    ELSE {k \in DOMAIN log'.uses :
            log'.uses[k] # MapGet(log.uses, k, U32(0))}

\* The step is such a call, importing ref from file from
UseCall(f, partIndex, ref, from) ==
  \E n \in UseCounts \ {U32(0)} :
    GenerateSymbolImportAndUse(f, partIndex, ref, n, from)

\* ------------------------------------------------------------------------
\* C12.  A call of GenerateSymbolImportAndUse with a use count above 0 that
\* returns appends to the dependencies of the using part one edge for each
\* part that declares the symbol in the file it is imported from (its
\* owning file, as the call names it): the parts the parser recorded, then
\* the parts added since, as the lookup through the overlay gives them;
\* each edge names that file and the declaring part.  A symbol that two
\* parts declare adds two edges, and the edges there were stay as they are.
\* ------------------------------------------------------------------------

\* The parts of file from that declare ref: the parser's, then the added
DeclaringParts(from, ref) ==
  MapGet(InputRepr(from).AST.TopLevelSymbolToPartsFromParser, ref, << >>)
    \o AddedDeclaringParts(from, ref)

EdgesTo(from, ref) ==
  [i \in 1 .. Len(DeclaringParts(from, ref)) |->
     [SourceIndex |-> from, PartIndex |-> DeclaringParts(from, ref)[i]]]

C12_OneEdgePerDeclaringPart ==
  [][\A k \in CountedUses : \A from \in FileIds :
       (UseCall(k[1], k[2], k[3], from) /\ pc' = "done") =>
         /\ Len(LinkerParts(k[1])') = Len(LinkerParts(k[1]))
         /\ \A q \in 0 .. (Len(LinkerParts(k[1])) - 1) :
              At(LinkerParts(k[1])', q).Dependencies =
                IF q = k[2]
                  THEN At(LinkerParts(k[1]), q).Dependencies
                         \o EdgesTo(from, k[3])
                  ELSE At(LinkerParts(k[1]), q).Dependencies]_vars

\* A use of a symbol of another file that two parts declare there was
\* recorded on the parser's second part: its one edge is followed by two
\* new ones
C12_Witness ==
  /\ pc = "done"
  /\ \E f, g \in Reachable :
       /\ f # g
       /\ IsJSRepr(f)
       /\ <<f, 1, Ref(g, 2)>> \in DOMAIN log.uses
       /\ Cardinality(DOMAIN log.uses) = 1
       /\ ops = 1
       /\ At(LinkerParts(f), 1).Dependencies =
            << [SourceIndex |-> f, PartIndex |-> 0],
               [SourceIndex |-> g, PartIndex |-> 0],
               [SourceIndex |-> g, PartIndex |-> 1] >>

\* ------------------------------------------------------------------------
\* C13.  A call of GenerateSymbolImportAndUse with a use count above 0
\* records an import to bind (the file and the symbol) in the using file
\* exactly when the file the symbol is imported from (its owning file, as
\* the call names it) is another file than the using one; a use of a
\* symbol of the using file itself leaves the imports to bind as they are.
\* ------------------------------------------------------------------------

ImportsToBindOf(h, f) == h[ReprPtr(f)].Meta.ImportsToBind

C13_ImportBindingIffOtherFile ==
  [][\A k \in CountedUses : \A from \in FileIds :
       UseCall(k[1], k[2], k[3], from) =>
         ImportsToBindOf(heap, k[1])' =
           IF from # k[1]
             THEN [nil |-> FALSE,
                   kv  |-> MapPut(ImportsToBindOf(heap, k[1]).kv, k[3],
                                  [SourceIndex |-> from, Ref |-> k[3]])]
             ELSE ImportsToBindOf(heap, k[1])]_vars

\* A file used a symbol of its own and a symbol of another file: the one
\* import to bind is the other file's symbol
C13_Witness ==
  /\ pc = "done"
  /\ \E f, g \in Reachable :
       /\ f # g
       /\ IsJSRepr(f)
       /\ DOMAIN log.uses = {<<f, 1, Ref(f, 2)>>, <<f, 1, Ref(g, 2)>>}
       /\ DOMAIN ImportsToBindOf(heap, f).kv = {Ref(g, 2)}
       /\ ImportsToBindOf(heap, f).kv[Ref(g, 2)] =
            [SourceIndex |-> g, Ref |-> Ref(g, 2)]

\* ------------------------------------------------------------------------
\* C14.  Each call of GenerateNewSymbol on a file returned the reference
\* (file, n), n the length of the file's symbol list before the call; the
\* symbol at n has the kind and the name given and no link; the reference
\* was appended to the generated list of the file's module scope.  So
\* after any calls the references returned are pairwise distinct, each is
\* the index of a symbol there is, and the symbols there were before are
\* unchanged.
\* ------------------------------------------------------------------------

\* The calls of GenerateNewSymbol made on file f, in order
GensOn(f) == SelectSeq(log.gens, LAMBDA g : g.sourceIndex = f)

ParsedSymbolsOf(f) == Elems(pool0.heap, InputRepr(f).AST.Symbols)

ParsedGeneratedOf(f) ==
  Elems(pool0.heap, pool0.heap[InputRepr(f).AST.ModuleScope].Generated)

LinkerGeneratedOf(f) ==
  Elems(heap, heap[heap[ReprPtr(f)].AST.ModuleScope].Generated)

C14_GeneratedSymbols ==
  (pc \in {"done", "panic"}) =>
    /\ \A f \in Reachable :
         IsJSRepr(f) =>
           /\ \A i \in 1 .. Len(GensOn(f)) :
                GensOn(f)[i].ret = Ref(f, Len(ParsedSymbolsOf(f)) + i - 1)
           /\ Elems(heap, symbols[f]) =
                ParsedSymbolsOf(f) \o
                [i \in 1 .. Len(GensOn(f)) |->
                   [Kind         |-> GensOn(f)[i].kind,
                    OriginalName |-> GensOn(f)[i].originalName,
                    Link         |-> InvalidRef]]
           /\ LinkerGeneratedOf(f) =
                ParsedGeneratedOf(f) \o
                [i \in 1 .. Len(GensOn(f)) |-> GensOn(f)[i].ret]
    /\ \A i, j \in 1 .. Len(log.gens) :
         i # j => log.gens[i].ret # log.gens[j].ret
    /\ \A i \in 1 .. Len(log.gens) :
         /\ log.gens[i].sourceIndex \in Reachable
         /\ log.gens[i].ret.SourceIndex = log.gens[i].sourceIndex
         /\ log.gens[i].ret.InnerIndex < symbols[log.gens[i].sourceIndex].len

\* Two symbols were generated in one file, after the parser's three
C14_Witness ==
  /\ pc = "done"
  /\ \E f \in Reachable :
       /\ Len(GensOn(f)) = 2
       /\ GensOn(f)[1].ret = Ref(f, 3)
       /\ GensOn(f)[2].ret = Ref(f, 4)
       /\ symbols[f].len = 5
       /\ Len(LinkerGeneratedOf(f)) = 3

\* ------------------------------------------------------------------------
\* C15.  A call of AddPartToFile, of GenerateNewSymbol or of
\* GenerateSymbolImportAndUse with a use count above 0 that names a file
\* that is not reachable or is a stylesheet, a part that does not exist or
\* a symbol that does not exist panics: none returns.
\* ------------------------------------------------------------------------

\* f is a reachable file with a JS representation
IsLinkedJS(f) == f \in Reachable /\ IsJSRepr(f)

\* ref is a symbol of a reachable JS file
SymbolExists(ref) ==
  /\ ref.SourceIndex \in FileIds
  /\ IsLinkedJS(ref.SourceIndex)
  /\ ref.InnerIndex >= 0
  /\ ref.InnerIndex < symbols[ref.SourceIndex].len

PartExists(f, partIndex) ==
  IsLinkedJS(f) /\ partIndex < PartsOf(heap, f).len

\* The step is a call of a mutator that breaks one of the preconditions
ViolatingCall ==
  \/ \E f \in FileIds : \E arg \in PartArgs(f) :
       ~IsLinkedJS(f) /\ AddPartToFile(f, arg)
  \/ \E f \in FileIds :
       ~IsLinkedJS(f) /\ GenerateNewSymbol(f, "other", "generated")
  \/ \E f \in FileIds : \E p \in PartIndexArgs : \E from \in FileIds :
       \E ref \in RefUniverse : \E n \in UseCounts \ {U32(0)} :
         /\ \/ ~IsLinkedJS(f)
            \/ ~IsLinkedJS(from)
            \/ ~PartExists(f, p)
            \/ ~SymbolExists(ref)
         /\ GenerateSymbolImportAndUse(f, p, ref, n, from)

C15_ViolationsAbort == [][ViolatingCall => pc' = "panic"]_vars

\* ------------------------------------------------------------------------
\* C16.  Whenever CloneLinkerGraph is past the barrier (at the promotion,
\* the sort, the final pass or the return, or has returned) every clone
\* task has finished: every reachable file is cloned to the end and, at
\* the promotion, the candidate list holds every candidate.  No step of
\* the serial phase is taken while a task still runs.
\* ------------------------------------------------------------------------

SerialPhase == pc \in {"promote", "sort", "final", "return", "done", "panic"}

\* The dynamic import records of the reachable files that name a file
NumCandidates ==
  IF codeSplitting
    THEN Cardinality({<<f, i>> \in Reachable \X (1 .. (MaxDup + 2)) :
                        i \in DynamicRecordsOf(f)})
    ELSE 0

\* The task of file f has run to its end
FullyCloned(f) ==
  /\ task[f].pc = "done"
  /\ files[f].DistanceFromEntryPoint = MaxUint32
  /\ files[f].InputFile.Repr.type = pool0.files[f].Repr.type
  /\ files[f].InputFile.Repr.ptr # pool0.files[f].Repr.ptr
  /\ IsJSRepr(f) => ~heap[ReprPtr(f)].Meta.ResolvedExports.nil

C16_SerialPhaseAfterBarrier ==
  SerialPhase =>
    /\ waitGroup = 0
    /\ mutex = -1
    /\ \A f \in Reachable : FullyCloned(f)
    /\ pc = "promote" => Len(dynamicImportEntryPoints) = NumCandidates

\* The promotion is about to run on the candidates of several tasks
C16_Witness ==
  /\ pc = "promote"
  /\ Len(dynamicImportEntryPoints) >= 3
  /\ \A f \in Reachable : task[f].pc = "done"

\* ------------------------------------------------------------------------
\* C17.  In the parallel phase a step of the clone task of file f writes
\* the slot of f only (its LinkerFile, its entry of the symbol table, the
\* objects it cloned): the one thing more that it writes is the candidate
\* list, and that while it holds the lock.  At most one task is between
\* Lock and Unlock, so no append is lost: at the barrier, with code
\* splitting, the list holds one candidate for each dynamic import record,
\* of a reachable JS file, that names a file; without code splitting no
\* task appends and the list is empty.  What a task has in its slot when
\* it finishes is what it makes of the input alone: it read nothing that
\* another task or the dispatch loop wrote.
\* ------------------------------------------------------------------------

\* Address a is of an object that the task of file f allocated
OwnedBy(a, f) == a[1] = "lk" /\ a[2] = f /\ a[3] # "entries"

\* The step is one of the clone task of file f
TaskStep(f) == task[f].pc # "idle" /\ task'[f] # task[f]

TaskWritesOwnSlot(f) ==
  /\ \A g \in FileIds \ {f} :
       /\ files'[g] = files[g]
       /\ symbols'[g] = symbols[g]
       /\ task'[g] = task[g]
  /\ files'[f].entryPointKind = files[f].entryPointKind
  /\ files'[f].EntryBits = files[f].EntryBits
  /\ \A a \in DOMAIN heap' :
       ~OwnedBy(a, f) => (a \in DOMAIN heap /\ heap'[a] = heap[a])
  /\ UNCHANGED <<argVars, pc, dispatched, entryPoints, stableSourceIndices,
                 stableEntryPoints, tsEnums, constValues>>
  /\ dynamicImportEntryPoints' # dynamicImportEntryPoints =>
       /\ mutex = f
       /\ mutex' = f
       /\ \E x \in FileIds :
            dynamicImportEntryPoints' = Append(dynamicImportEntryPoints, x)

\* The tasks that are between Lock and Unlock
InCriticalSection == {f \in FileIds : task[f].pc \in {"locked", "appended"}}

MutualExclusion ==
  /\ Cardinality(InCriticalSection) <= 1
  /\ \A f \in InCriticalSection : mutex = f
  /\ InCriticalSection = {} => mutex = -1

\* How often x is in the sequence s
Occurrences(s, x) == Cardinality({i \in 1 .. Len(s) : s[i] = x})

NoAppendLost ==
  pc = "promote" =>
    \A x \in FileIds :
      Occurrences(dynamicImportEntryPoints, x) =
        IF codeSplitting THEN NumDynamicImportsOf(x) ELSE 0

\* The loop over the import records of the task, from record i on, as to
\* the assertions
RECURSIVE ClearAssertionsFrom(_, _, _)
ClearAssertionsFrom(h, rp, i) ==
  IF i >= h[rp].AST.ImportRecords.len
    THEN h
    ELSE ClearAssertionsFrom(
           IF IsDynamicImportOfFile(At(h[h[rp].AST.ImportRecords.arr], i))
             THEN ClearAssertions(h, rp, i)
             ELSE h,
           rp, i + 1)

\* The heap that the task of f makes of the input when it runs alone
TaskAlone(f) ==
  LET ptr == pool0.files[f].Repr.ptr
      rp  == ReprCloneAddr(f, ptr)
  IN  IF pool0.files[f].Repr.type = "JS"
        THEN LET h1 == CloneJS(pool0.heap, f, ptr)
                 h2 == IF codeSplitting THEN ClearAssertionsFrom(h1, rp, 0)
                                        ELSE h1
             IN  FinishJS(h2, f, rp)
        ELSE CloneCSS(pool0.heap, f, ptr)

\* The step is the last one of the clone task of file f
TaskFinishes(f) == task[f].pc # "done" /\ task'[f].pc = "done"

TaskResultFromInputAlone(f) ==
  LET alone == TaskAlone(f)
  IN  /\ files'[f].InputFile =
           [pool0.files[f] EXCEPT !.Repr.ptr =
              ReprCloneAddr(f, pool0.files[f].Repr.ptr)]
      /\ \A a \in DOMAIN heap' : OwnedBy(a, f) => heap'[a] = alone[a]
      /\ IsJSRepr(f) => Elems(heap, symbols[f])' = ParsedSymbolsOf(f)

TaskStepsAreLocal ==
  \A f \in FileIds :
    /\ TaskStep(f) => TaskWritesOwnSlot(f)
    /\ TaskFinishes(f) => TaskResultFromInputAlone(f)

C17_TasksShareOnlyTheCandidates ==
  [][TaskStepsAreLocal /\ MutualExclusion' /\ NoAppendLost']_vars

\* C17 as it was stated, the candidates at the barrier not depending on code
\* splitting: one candidate for each such record in every build
OneCandidatePerDynamicImport ==
  pc = "promote" =>
    \A x \in FileIds :
      Occurrences(dynamicImportEntryPoints, x) = NumDynamicImportsOf(x)

C17_CandidatesInEveryBuild ==
  [][TaskStepsAreLocal /\ MutualExclusion' /\ OneCandidatePerDynamicImport']_vars

\* Two tasks wait for the lock while a third holds it, having appended
C17_Witness ==
  /\ pc = "dispatch"
  /\ \E f, g, h \in Reachable :
       /\ f # g /\ g # h /\ f # h
       /\ task[f].pc = "appended"
       /\ mutex = f
       /\ InRecordLoop(g) /\ IsDynamicImportOfFile(CurrentRecord(g))
       /\ task[h].pc = "done"
       /\ Len(dynamicImportEntryPoints) >= 2

\* ------------------------------------------------------------------------
\* C18.  A call of GenerateSymbolImportAndUse on file f with a use count
\* above 0 that gets to count the use sets UsesExportsRef of f when the
\* symbol passed is the ExportsRef of f, and UsesModuleRef of f when it is
\* the ModuleRef of f, and leaves each flag as it was otherwise.  Every
\* other step of a mutator (a call with a use count of 0, a call that
\* aborts before it counts the use, AddPartToFile, GenerateNewSymbol)
\* leaves both flags of every file unchanged; so no flag that is set is
\* ever cleared.
\* ------------------------------------------------------------------------

UsesExportsRefOf(h, f) == h[ReprPtr(f)].AST.UsesExportsRef

UsesModuleRefOf(h, f) == h[ReprPtr(f)].AST.UsesModuleRef

\* The symbols that the step counts a use of on file f
CountedRefsOn(f) == {k[3] : k \in {c \in CountedUses : c[1] = f}}

C18_CommonJSFlags ==
  [][pc = "done" =>
       \A f \in FileIds : IsLinkedJS(f) =>
         /\ UsesExportsRefOf(heap, f)' =
              (UsesExportsRefOf(heap, f)
                 \/ heap[ReprPtr(f)].AST.ExportsRef \in CountedRefsOn(f))
         /\ UsesModuleRefOf(heap, f)' =
              (UsesModuleRefOf(heap, f)
                 \/ heap[ReprPtr(f)].AST.ModuleRef \in CountedRefsOn(f))]_vars

\* A use of the exports symbol of f was counted and then a use of another
\* symbol: the exports flag of f is set, its module flag is not
C18_Witness ==
  /\ pc = "done"
  /\ ops = MaxOps
  /\ \E f \in Reachable :
       /\ IsJSRepr(f)
       /\ \E p \in 0 .. 1 :
            DOMAIN log.uses = {<<f, p, Ref(f, 0)>>, <<f, p, Ref(f, 2)>>}
       /\ UsesExportsRefOf(heap, f)
       /\ ~UsesModuleRefOf(heap, f)

\* ------------------------------------------------------------------------
\* C19.  Once CloneLinkerGraph has built the graph, the entryPointKind of a
\* file is other than entryPointNone exactly when an entry of the
\* entry-point list names the file.  Each of the initial entries names a
\* file of kind entryPointUserSpecified, each entry appended after them
\* names a file of kind entryPointDynamicImport, and a file of kind
\* entryPointDynamicImport is named by one entry and no more.
\* ------------------------------------------------------------------------

\* The file is an entry point, going by its kind
IsEntryPointByKind(f) == files[f].entryPointKind # "entryPointNone"

\* The file is an entry point, going by the entry-point list
IsEntryPointByList(f) == CountOf(FinalEntryPoints, f) > 0

C19_KindAgreesWithEntryList ==
  Built =>
    /\ \A f \in FileIds : IsEntryPointByKind(f) <=> IsEntryPointByList(f)
    /\ \A i \in 1 .. Len(FinalEntryPoints) :
         files[FinalEntryPoints[i].SourceIndex].entryPointKind =
           IF i <= Len(InputEntryPoints) THEN "entryPointUserSpecified"
                                         ELSE "entryPointDynamicImport"
    /\ \A f \in FileIds :
         files[f].entryPointKind = "entryPointDynamicImport" =>
           CountOf(FinalEntryPoints, f) = 1

\* A graph with a file of each kind, the dynamic one imported more than once
C19_Witness ==
  /\ Built
  /\ \E f, g, h \in FileIds :
       /\ files[f].entryPointKind = "entryPointUserSpecified"
       /\ files[g].entryPointKind = "entryPointDynamicImport"
       /\ files[h].entryPointKind = "entryPointNone"
       /\ NumDynamicImportsOf(g) > 1
       /\ FinalEntryPoints[Len(FinalEntryPoints)].SourceIndex = g

\* ------------------------------------------------------------------------
\* C20.  Once the task of a reachable JS file f has cloned the file, the
\* entry of f in the symbol table is the parsed symbol list by value, in an
\* array of its own; the representation of the linking file, the clone,
\* has no symbol list; and the input file still has its list, under the
\* pointer it had.  So no array of symbols is reached both from the input
\* file and from the linking graph.
\* ------------------------------------------------------------------------

\* The task of file f is past the clone of the representation
Cloned(f) == f \in Reachable /\ InputIsJS(f) /\ task[f].pc \notin {"idle", "clone"}

\* The symbol list of the representation that the input file points to
InputSymbolsNow(f) == heap[inputFiles[f].Repr.ptr].AST.Symbols

\* The symbol list of the representation that the linking file points to
LinkerSymbolsNow(f) == heap[ReprPtr(f)].AST.Symbols

SymbolsInTable(f) ==
  /\ Elems(heap, symbols[f]) = ParsedSymbolsOf(f)
  /\ symbols[f].arr # InputRepr(f).AST.Symbols.arr

C20_SymbolsCopiedOut ==
  \A f \in FileIds : Cloned(f) =>
    /\ SymbolsInTable(f)
    /\ ReprPtr(f) # inputFiles[f].Repr.ptr
    /\ LinkerSymbolsNow(f) = NilSlice
    /\ InputSymbolsNow(f) = InputRepr(f).AST.Symbols
    /\ Elems(heap, InputSymbolsNow(f)) = ParsedSymbolsOf(f)

\* C20 as it was stated: the pointer that is cleared is the input file's
C20_InputPointerCleared ==
  \A f \in FileIds : Cloned(f) =>
    /\ SymbolsInTable(f)
    /\ InputSymbolsNow(f) = NilSlice

\* The graph is built; a JS file has its three symbols in the table and in
\* the input file, and none under its linking file's representation
C20_Witness ==
  /\ Built
  /\ \E f \in Reachable :
       /\ Cloned(f)
       /\ symbols[f].len = 3
       /\ InputSymbolsNow(f).len = 3
       /\ LinkerSymbolsNow(f).len = 0

====
